---- MODULE Spec2Model ----
(***************************************************************************)
(* A model of the simplelink NBP relay node: the KISS framing, the NBP     *)
(* frame codec with its CRC, the routing algebra, the packet-id generator, *)
(* the seen-PRN ring, the transmit queue and the node engine.              *)
(*                                                                         *)
(* Representation.  A byte is a number in 0..255 and a byte vector is a    *)
(* sequence of bytes.  A u32 (address, PRN) is the tuple of its four       *)
(* big-endian bytes, the order in which the codec writes it to the wire,   *)
(* because TLC's integers stop at 2^31-1.  Rust slices and arrays are      *)
(* 0-based; sequences here are 1-based, and every index that the code      *)
(* reports (bytes_read, data_offset, sep_idx) keeps the code's 0-based     *)
(* value.                                                                  *)
(***************************************************************************)
EXTENDS Integers, Sequences, FiniteSets, Bags, TLC

(***************************************************************************)
(* Bits, bytes and words                                                   *)
(***************************************************************************)
BitAt(x, k) == (x \div (2 ^ k)) % 2

\* x with bit k inverted
flip(x, k) == IF BitAt(x, k) = 1 THEN x - (2 ^ k) ELSE x + (2 ^ k)

RECURSIVE xor_bits(_, _, _)
xor_bits(a, b, w) ==
    IF w = 0 THEN 0
    ELSE (((a % 2) + (b % 2)) % 2) + 2 * xor_bits(a \div 2, b \div 2, w - 1)

xor_u32(a, b) == [i \in 1..4 |-> xor_bits(a[i], b[i], 8)]

\* N copies of x
Fill(x, n) == [i \in 1..n |-> x]

Take(s, n) == SubSeq(s, 1, n)
Drop(s, n) == SubSeq(s, n + 1, Len(s))

(***************************************************************************)
(* crc16.rs                                                                *)
(***************************************************************************)
CRC_POLY == 4129

crc_new == 65535

\* crc ^= CRC_POLY: 0x1021 has bits 12, 5 and 0 set
xor_poly(crc) == flip(flip(flip(crc, 0), 5), 12)

\* One turn of the bit loop shared by update_u8 and finish: shift the u16
\* left, add the input bit, xor the polynomial if the bit shifted out was set.
crc_step(crc, inbit) ==
    LET shifted == ((crc % 32768) * 2) + inbit
    IN IF crc >= 32768 THEN xor_poly(shifted) ELSE shifted

\* update_u8: the loop's eight turns, from the byte's highest bit down
update_u8(byte, crc) ==
    LET c7 == crc_step(crc, BitAt(byte, 7))
        c6 == crc_step(c7, BitAt(byte, 6))
        c5 == crc_step(c6, BitAt(byte, 5))
        c4 == crc_step(c5, BitAt(byte, 4))
        c3 == crc_step(c4, BitAt(byte, 3))
        c2 == crc_step(c3, BitAt(byte, 2))
        c1 == crc_step(c2, BitAt(byte, 1))
    IN crc_step(c1, BitAt(byte, 0))

update_u32(word, crc) ==
    update_u8(word[4], update_u8(word[3], update_u8(word[2], update_u8(word[1], crc))))

\* finish: sixteen turns of the loop with no input bit, which is update_u8
\* of a zero byte twice
finish(crc) == update_u8(0, update_u8(0, crc))

\* crc folded over bytes[lo..hi], as the loops of to_bytes and from_bytes
\* fold update_u8 over the bytes they write and read; halving keeps the
\* evaluation shallow for MTU-sized payloads.
RECURSIVE update_bytes(_, _, _, _)
update_bytes(bytes, lo, hi, crc) ==
    IF lo > hi THEN crc
    ELSE IF lo = hi THEN update_u8(bytes[lo], crc)
    ELSE LET mid == (lo + hi) \div 2
             left == update_bytes(bytes, lo, mid, crc)
         IN IF left >= 0 THEN update_bytes(bytes, mid + 1, hi, left) ELSE left

(***************************************************************************)
(* kiss.rs                                                                 *)
(***************************************************************************)
FEND == 192
FESC == 219
TFEND == 220
TFESC == 221
CMD_DATA == 0

kiss_escape(byte) ==
    IF byte = FEND THEN <<FESC, TFEND>>
    ELSE IF byte = FESC THEN <<FESC, TFESC>>
    ELSE <<byte>>

RECURSIVE kiss_escape_all(_, _, _)
kiss_escape_all(data, lo, hi) ==
    IF lo > hi THEN <<>>
    ELSE IF lo = hi THEN kiss_escape(data[lo])
    ELSE LET mid == (lo + hi) \div 2
         IN kiss_escape_all(data, lo, mid) \o kiss_escape_all(data, mid + 1, hi)

\* encode: FEND, command byte with the port in the high nibble, the escaped
\* data, FEND.
kiss_encode(data, port) ==
    <<FEND, CMD_DATA + ((port % 16) * 16)>>
        \o kiss_escape_all(data, 1, Len(data)) \o <<FEND>>

\* The state threaded through decode's iterator chain.  start_frame and
\* end_frame are the first scan's pair (-1 is None), was_esc the second
\* scan's flag, and port, last_idx, decoded the fold's accumulator.
DecodeStart ==
    [start_frame |-> -1, end_frame |-> -1, was_esc |-> FALSE,
     port |-> -1, last_idx |-> -1, decoded |-> <<>>]

\* The fold at the end of the chain: the first byte that reaches it is the
\* command/port byte, the others are payload.
decode_fold(st, idx, byte) ==
    IF st.port # -1
    THEN [st EXCEPT !.decoded = Append(@, byte), !.last_idx = idx]
    ELSE [st EXCEPT !.port = byte \div 16, !.last_idx = idx]

\* The escape scan and its filter.
decode_unescape(st, idx, byte) ==
    IF byte = FESC THEN [st EXCEPT !.was_esc = TRUE]
    ELSE IF st.was_esc
    THEN LET s == [st EXCEPT !.was_esc = FALSE]
         IN IF byte = TFEND THEN decode_fold(s, idx, FEND)
            ELSE IF byte = TFESC THEN decode_fold(s, idx, FESC)
            ELSE s
    ELSE decode_fold(st, idx, byte)

\* One input byte pulled through the whole chain (idx is 0-based).
decode_step(st, idx, byte) ==
    IF st.start_frame # -1 /\ st.end_frame # -1 THEN st
    ELSE IF st.start_frame = -1
    THEN IF byte = FEND THEN [st EXCEPT !.start_frame = idx] ELSE st
    ELSE IF byte = FEND
    THEN IF st.start_frame + 1 = idx
         THEN [st EXCEPT !.start_frame = idx]
         ELSE [st EXCEPT !.end_frame = idx]
    ELSE decode_unescape(st, idx, byte)

RECURSIVE decode_scan(_, _, _, _)
decode_scan(data, lo, hi, st) ==
    IF lo > hi THEN st
    ELSE IF lo = hi THEN decode_step(st, lo - 1, data[lo])
    ELSE LET mid == (lo + hi) \div 2
             left == decode_scan(data, lo, mid, st)
         IN IF left.port >= -1 THEN decode_scan(data, mid + 1, hi, left) ELSE left

\* decode: None unless the fold saw a byte; bytes_read is the index of the
\* last byte the fold saw, plus two.
kiss_decode(data) ==
    LET st == decode_scan(data, 1, Len(data), DecodeStart)
    IN IF st.port = -1
       THEN [some |-> FALSE, port |-> 0, bytes_read |-> 0, payload_size |-> 0,
             decoded |-> <<>>]
       ELSE [some |-> TRUE, port |-> st.port, bytes_read |-> st.last_idx + 2,
             payload_size |-> Len(st.decoded), decoded |-> st.decoded]

(***************************************************************************)
(* routing.rs                                                              *)
(***************************************************************************)
ADDRESS_SEPARATOR == <<0, 0, 0, 0>>
BROADCAST_ADDRESS == <<255, 255, 255, 255>>
MAX_LENGTH == 17

\* [0; MAX_LENGTH]
EmptyRoute == Fill(ADDRESS_SEPARATOR, MAX_LENGTH)

\* gen_route: the given addresses from index 0, separators after them.
gen_route(addrs) ==
    [i \in 1..MAX_LENGTH |-> IF i <= Len(addrs) THEN addrs[i] ELSE ADDRESS_SEPARATOR]

\* A test that takes every frame to be addressed to this station.
is_destination_any(route, this_addr) == TRUE

\* A test that knows no broadcast address.
is_destination_exact(route, this_addr) == route[1] = this_addr

is_destination(route, this_addr) ==
    route[1] = this_addr \/ route[1] = BROADCAST_ADDRESS

is_broadcast(route) == route[1] = BROADCAST_ADDRESS

\* A final_addr that takes the last hop but one to be the last.
final_addr_early(route) ==
    route[2] = ADDRESS_SEPARATOR \/ route[3] = ADDRESS_SEPARATOR

\* A final_addr that takes every route to end here.
final_addr_always(route) == TRUE

final_addr(route) == route[2] = ADDRESS_SEPARATOR

\* The 0-based index of the first separator, or -1.
sep_position(route) ==
    IF \E i \in 1..Len(route) : route[i] = ADDRESS_SEPARATOR
    THEN (CHOOSE i \in 1..Len(route) :
              /\ route[i] = ADDRESS_SEPARATOR
              /\ \A j \in 1..(i - 1) : route[j] # ADDRESS_SEPARATOR) - 1
    ELSE -1

\* A test that lets a route through whose separator is its last word.
advance_ok_to_the_end(route) == sep_position(route) # -1 /\ sep_position(route) # 0

advance_ok(route) ==
    LET sep_idx == sep_position(route)
    IN sep_idx # -1 /\ sep_idx # 0 /\ sep_idx + 1 # Len(route)

\* An advance that writes this_addr over the first word and moves nothing.
advance_in_place(route, this_addr) == [route EXCEPT ![1] = this_addr]

\* advance, when it does not fail with BadFormat: the words before the
\* separator move down by one (the separator with them) and this_addr is
\* written where the separator was.
advance(route, this_addr) ==
    LET sep_idx == sep_position(route)
    IN [i \in 1..Len(route) |->
           IF i <= sep_idx THEN route[i + 1]
           ELSE IF i = sep_idx + 1 THEN this_addr
           ELSE route[i]]

\* The whole array read backwards, the padding first.
reverse_with_padding(route) == [i \in 1..Len(route) |-> route[Len(route) + 1 - i]]

\* reverse: the route read backwards from its last non-separator word,
\* written from index 0 into a route of separators.
reverse(route) ==
    LET n == IF \E i \in 1..Len(route) : route[i] # ADDRESS_SEPARATOR
             THEN CHOOSE i \in 1..Len(route) :
                      /\ route[i] # ADDRESS_SEPARATOR
                      /\ \A j \in (i + 1)..Len(route) : route[j] = ADDRESS_SEPARATOR
             ELSE 0
    IN [i \in 1..Len(route) |-> IF i <= n THEN route[n + 1 - i] ELSE ADDRESS_SEPARATOR]

(***************************************************************************)
(* prn_id.rs                                                               *)
(***************************************************************************)
\* new: current = 0xFFFFFFFF
prn_new(callsign) == [current |-> <<255, 255, 255, 255>>, callsign |-> callsign]

prn_current(prn) == xor_u32(prn.current, prn.callsign)

\* One LFSR step: the new top bit is the xor of bits 7, 6, 2 and 0 of
\* current; every other bit moves down by one.
lfsr_step(c) ==
    LET low == c[4]
        bit == (BitAt(low, 7) + BitAt(low, 6) + BitAt(low, 2) + BitAt(low, 0)) % 2
    IN [i \in 1..4 |->
           (c[i] \div 2) + 128 * (IF i = 1 THEN bit ELSE c[i - 1] % 2)]

prn_next(prn) == [prn EXCEPT !.current = lfsr_step(@)]

(***************************************************************************)
(* frame.rs                                                                *)
(***************************************************************************)
MTU == 1500

\* An ack that does not carry the PRN it is given.
new_ack_blank(prn, dest) == [prn |-> ADDRESS_SEPARATOR, address_route |-> dest]

new_ack(prn, dest) == [prn |-> prn, address_route |-> dest]

\* new_header's verdict on the route the caller supplies.
new_header_error(dest) ==
    IF Len(dest) > MAX_LENGTH THEN "AddressTooLong"
    ELSE IF \A i \in 1..Len(dest) : dest[i] # ADDRESS_SEPARATOR
    THEN "AddressSeparatorNotFound"
    ELSE "Ok"

\* new_header on success: the frame carries the generator's next value;
\* prn is the generator before the call.
new_header(prn, dest) ==
    [prn |-> prn_current(prn_next(prn)), address_route |-> gen_route(dest)]

\* The number of route words to_bytes writes from the route itself: up to
\* and including the second separator, or all of them.
route_words(route) ==
    LET seps == {i \in 1..Len(route) : route[i] = ADDRESS_SEPARATOR}
        second == {i \in seps : Cardinality({j \in seps : j < i}) = 1}
    IN IF second = {} THEN Len(route) ELSE CHOOSE i \in second : TRUE

RECURSIVE flatten_words(_, _, _)
flatten_words(words, lo, hi) ==
    IF lo > hi THEN <<>>
    ELSE words[lo] \o flatten_words(words, lo + 1, hi)

\* The frame before its CRC: prn, the route words, a trailing separator if
\* the route held exactly one, the payload.
to_bytes_body(frame, payload) ==
    LET n == route_words(frame.address_route)
        delim_count ==
            Cardinality({i \in 1..n : frame.address_route[i] = ADDRESS_SEPARATOR})
    IN frame.prn \o flatten_words(frame.address_route, 1, n)
         \o (IF delim_count = 1 THEN ADDRESS_SEPARATOR ELSE <<>>)
         \o payload

\* The two bytes of v written low byte first.
u16_bytes_little_endian(v) == <<v % 256, v \div 256>>

\* write_u16::<BigEndian>
u16_bytes(v) == <<v \div 256, v % 256>>

\* to_bytes: the body followed by the finished CRC of the body, big-endian.
\* (update_u32 feeds a word's bytes in wire order, so the CRC is that of
\* the body's bytes.)
to_bytes(frame, payload) ==
    LET body == to_bytes_body(frame, payload)
    IN body \o u16_bytes(finish(update_bytes(body, 1, Len(body), crc_new)))

word_at(bytes, off) == SubSeq(bytes, off + 1, off + 4)

\* from_bytes' loop over the route words: reads until two separators or
\* MAX_LENGTH words; eof is a read past the end of the input.
RECURSIVE scan_addr(_, _, _, _)
scan_addr(bytes, off, addr, addr_marker) ==
    IF Len(addr) = MAX_LENGTH \/ addr_marker = 2
    THEN [eof |-> FALSE, addr |-> addr, addr_marker |-> addr_marker, off |-> off]
    ELSE IF off + 4 > Len(bytes)
    THEN [eof |-> TRUE, addr |-> addr, addr_marker |-> addr_marker, off |-> off]
    ELSE LET value == word_at(bytes, off)
         IN scan_addr(bytes, off + 4, Append(addr, value),
                      IF value = ADDRESS_SEPARATOR THEN addr_marker + 1
                      ELSE addr_marker)

FrameResult(tag, prn, addr, payload) ==
    [tag |-> tag,
     frame |-> [prn |-> prn, address_route |-> gen_route(addr)],
     payload |-> payload]

FrameError(tag) == FrameResult(tag, ADDRESS_SEPARATOR, <<>>, <<>>)

\* from_bytes(bytes, out_payload, size) with an out_payload of MTU bytes.
\* tag is "Ok", or the ReadError ("IO", "BadAddress", "Truncated",
\* "CRCFailure"; a later error replaces an earlier one), or "Panic" where
\* the slice out_payload[..payload_size] is out of range.
from_bytes(bytes, size) ==
    IF Len(bytes) < 4 THEN FrameError("IO")
    ELSE
    LET prn == word_at(bytes, 0)
        sc == scan_addr(bytes, 4, <<>>, 0)
        need18 == Len(sc.addr) = MAX_LENGTH /\ sc.addr_marker # 2
    IN IF sc.eof THEN FrameError("IO")
       ELSE IF need18 /\ sc.off + 4 > Len(bytes) THEN FrameError("IO")
       ELSE
       LET bad_address == need18 /\ word_at(bytes, sc.off) # ADDRESS_SEPARATOR
           off == IF need18 THEN sc.off + 4 ELSE sc.off
           addr_len == IF need18 THEN Len(sc.addr) + 1 ELSE Len(sc.addr)
           header_size == 4 + addr_len * 4 + 2
       IN IF size < header_size THEN FrameError("IO")
          ELSE
          LET payload_size == size - header_size
              avail == Len(bytes) - off
          IN IF payload_size > MTU THEN FrameError("Panic")
             ELSE IF avail < payload_size + 2 THEN FrameError("IO")
             ELSE
             LET payload == SubSeq(bytes, off + 1, off + payload_size)
                 crc == finish(update_bytes(bytes, 1, off + payload_size, crc_new))
                 frame_crc == bytes[off + payload_size + 1] * 256
                                + bytes[off + payload_size + 2]
             IN IF frame_crc # crc THEN FrameError("CRCFailure")
                ELSE IF bad_address THEN FrameError("BadAddress")
                ELSE FrameResult("Ok", prn, sc.addr, payload)

(***************************************************************************)
(* node/prn_table.rs                                                       *)
(***************************************************************************)
TABLE_SIZE == 1000

\* new: [0; TABLE_SIZE] and last_idx 0.  prns maps the slots that were
\* written to what they hold; every other slot of the array holds 0.
table_new == [prns |-> <<>>, last_idx |-> 0]

\* An add that starts again at slot 0 one slot early.
table_add_short(table, prn) ==
    [prns |-> IF table.last_idx < Len(table.prns)
              THEN [table.prns EXCEPT ![table.last_idx + 1] = prn]
              ELSE Append(table.prns, prn),
     last_idx |-> IF table.last_idx + 2 >= 1000 THEN 0 ELSE table.last_idx + 1]

\* add.  Slots are written in the order 0, 1, 2, ..., so the written slots
\* are 0 .. n-1 and prns[i + 1] is slot i.
table_add(table, prn) ==
    [prns |-> IF table.last_idx < Len(table.prns)
              THEN [table.prns EXCEPT ![table.last_idx + 1] = prn]
              ELSE Append(table.prns, prn),
     last_idx |-> IF table.last_idx + 1 >= 1000 THEN 0 ELSE table.last_idx + 1]

\* A contains that never finds a PRN.
table_contains_never(table, prn) == FALSE

table_contains(table, prn) ==
    \/ \E i \in 1..Len(table.prns) : table.prns[i] = prn
    \/ Len(table.prns) < TABLE_SIZE /\ prn = <<0, 0, 0, 0>>

(***************************************************************************)
(* node/tx_queue.rs                                                        *)
(***************************************************************************)
MAX_PACKET == 256
BLOCK_SIZE == 50 * 1024
CONGEST_CONTROL == 35 * 1024
RETRY_COUNT == 4
RETRY_DELAY_MS == 500

\* The values the random draw of tick is modelled to take: RndSteps + 1
\* evenly spaced points r of [0, 1], both ends included.
RndSteps == 1

queue_new == [pending |-> <<>>, data |-> <<>>]

\* A test that leaves the last byte of the block unused.
enqueue_fits_below(queue, payload) == Len(queue.data) + Len(payload) < BLOCK_SIZE

\* enqueue's test: Discarded unless this holds.
enqueue_fits(queue, payload) == Len(queue.data) + Len(payload) <= BLOCK_SIZE

\* enqueue, when it is not Discarded.
queue_enqueue(queue, header, payload) ==
    [pending |-> Append(queue.pending,
                   [packet |-> header,
                    next_send |-> RETRY_DELAY_MS,
                    retry_count |-> 0,
                    data_offset |-> Len(queue.data),
                    data_size |-> Len(payload)]),
     data |-> queue.data \o payload]

get_packet_data(queue, pending) ==
    SubSeq(queue.data, pending.data_offset + 1, pending.data_offset + pending.data_size)

\* A discard that moves only the offsets beyond the end of the freed range.
queue_discard_beyond(queue, idx) ==
    LET data_start == queue.pending[idx].data_offset
        data_end == data_start + queue.pending[idx].data_size
        rest == [i \in 1..(Len(queue.pending) - 1) |->
                    IF i < idx THEN queue.pending[i] ELSE queue.pending[i + 1]]
    IN [pending |-> [i \in 1..Len(rest) |->
                        IF rest[i].data_offset > data_end
                        THEN [rest[i] EXCEPT !.data_offset = @ - (data_end - data_start)]
                        ELSE rest[i]],
        data |-> Take(queue.data, data_start) \o Drop(queue.data, data_end)]

\* discard(idx): idx is the 1-based place of the entry in pending.
queue_discard(queue, idx) ==
    LET data_start == queue.pending[idx].data_offset
        data_end == data_start + queue.pending[idx].data_size
        rest == [i \in 1..(Len(queue.pending) - 1) |->
                    IF i < idx THEN queue.pending[i] ELSE queue.pending[i + 1]]
    IN [pending |-> [i \in 1..Len(rest) |->
                        IF rest[i].data_offset >= data_end
                        THEN [rest[i] EXCEPT !.data_offset = @ - (data_end - data_start)]
                        ELSE rest[i]],
        data |-> Take(queue.data, data_start) \o Drop(queue.data, data_end)]

\* A search that returns the last entry with the PRN, not the first.
prn_position_last(queue, prn) ==
    IF \E i \in 1..Len(queue.pending) : queue.pending[i].packet.prn = prn
    THEN CHOOSE i \in 1..Len(queue.pending) :
             /\ queue.pending[i].packet.prn = prn
             /\ \A j \in (i + 1)..Len(queue.pending) : queue.pending[j].packet.prn # prn
    ELSE 0

\* position(|pending| pending.packet.prn == prn), 1-based, 0 for None.
prn_position(queue, prn) ==
    IF \E i \in 1..Len(queue.pending) : queue.pending[i].packet.prn = prn
    THEN CHOOSE i \in 1..Len(queue.pending) :
             /\ queue.pending[i].packet.prn = prn
             /\ \A j \in 1..(i - 1) : queue.pending[j].packet.prn # prn
    ELSE 0

\* An ack_recv that reports the entry found and leaves it in the queue.
queue_ack_recv_kept(queue, prn) ==
    [found |-> prn_position(queue, prn) # 0, queue |-> queue]

\* ack_recv: the returned bool and the queue afterwards.
queue_ack_recv(queue, prn) ==
    LET idx == prn_position(queue, prn)
    IN IF idx # 0
       THEN [found |-> TRUE, queue |-> queue_discard(queue, idx)]
       ELSE [found |-> FALSE, queue |-> queue]

\* A delay that starts at twice RETRY_DELAY_MS.
retry_delay_long(retry_count, r) ==
    (2 * RETRY_DELAY_MS) + ((r * retry_count * RETRY_DELAY_MS) \div RndSteps)

\* A delay of no time at all.
retry_delay_none(retry_count, r) == 0

\* The delay tick draws for an entry whose retry_count is already
\* incremented, for the draw r / RndSteps of [0, 1].
retry_delay(retry_count, r) ==
    RETRY_DELAY_MS + ((r * retry_count * RETRY_DELAY_MS) \div RndSteps)

\* A test that discards for congestion only, never for the retry count.
tick_will_discard_congested(queue, p) == Len(queue.data) > CONGEST_CONTROL

\* A congestion test that already holds at CONGEST_CONTROL.
tick_will_discard_at_limit(queue, p) ==
    p.retry_count >= RETRY_COUNT \/ Len(queue.data) >= CONGEST_CONTROL

\* tick's two tests on an entry that is due.
tick_will_discard(queue, p) ==
    p.retry_count >= RETRY_COUNT \/ Len(queue.data) > CONGEST_CONTROL

\* A test that lets an entry be retried once more.
tick_will_retry_once_more(p) == p.retry_count <= RETRY_COUNT

tick_will_retry(p) == p.retry_count < RETRY_COUNT

\* A tick whose failing retry leaves the entry as it was.
tick_failed_uncounted(before, retried) == before

\* The queue a tick leaves when the retry callback returns Err: retry_count
\* and next_send of the entry were written before the call.
tick_failed(before, retried) == retried

\* tick's while loop from index idx (1-based).  rnd[k] is the draw of the
\* k-th retry of this call and fail_at the retry call that returns Err (0:
\* none does).  acc collects, in order, the calls made to retry and discard.
RECURSIVE tick_loop(_, _, _, _, _, _)
tick_loop(queue, idx, elapsed_ms, rnd, fail_at, acc) ==
    IF idx > Len(queue.pending)
    THEN [queue |-> queue, calls |-> acc, err |-> FALSE]
    ELSE
    LET p == queue.pending[idx]
    IN IF p.next_send <= elapsed_ms
       THEN
       LET will_discard == tick_will_discard(queue, p)
           will_retry == tick_will_retry(p)
           nth == Cardinality({k \in 1..Len(acc) : acc[k].call = "retry"}) + 1
           next_send == retry_delay(p.retry_count + 1, rnd[nth])
           retried == [queue EXCEPT !.pending[idx] =
                          [p EXCEPT !.retry_count = @ + 1, !.next_send = next_send]]
           q1 == IF will_retry THEN retried ELSE queue
           acc1 == IF will_retry
                   THEN Append(acc, [call |-> "retry", packet |-> p.packet,
                                     data |-> get_packet_data(queue, p),
                                     next_retry |-> next_send])
                   ELSE acc
       IN IF will_retry /\ nth = fail_at
          THEN [queue |-> tick_failed(queue, q1), calls |-> acc1, err |-> TRUE]
          ELSE IF will_discard
          THEN tick_loop(queue_discard(q1, idx), idx, elapsed_ms, rnd, fail_at,
                         Append(acc1, [call |-> "discard", packet |-> p.packet,
                                       data |-> get_packet_data(queue, p),
                                       next_retry |-> 0]))
          ELSE tick_loop(q1, idx + 1, elapsed_ms, rnd, fail_at, acc1)
       ELSE tick_loop([queue EXCEPT !.pending[idx].next_send = @ - elapsed_ms],
                      idx + 1, elapsed_ms, rnd, fail_at, acc)

queue_tick(queue, elapsed_ms, rnd, fail_at) ==
    tick_loop(queue, 1, elapsed_ms, rnd, fail_at, <<>>)

pending_packets(queue) == Len(queue.pending)

(***************************************************************************)
(* node/mod.rs                                                             *)
(*                                                                         *)
(* An operation of Node is an operator from the node before the call to a  *)
(* record of the node after it, the bytes it wrote to the transport (out), *)
(* the callbacks it made in order, and what it returned.  A transport      *)
(* write that fails writes nothing.  A panic of the Rust code is the       *)
(* result "Panic".                                                         *)
(***************************************************************************)
SCRACH_SIZE == 256

\* new
node_new(callsign) ==
    [prn |-> prn_new(callsign),
     recv_prn_table |-> table_new,
     tx_queue |-> queue_new,
     recv_buffer |-> <<>>,
     kiss_frame_scratch |-> <<>>]

\* A test that takes a payload of MTU bytes to be too large.
too_large_at_mtu(in_data) == Len(in_data) >= MTU

\* send's test after counting the bytes of in_data (send_slice repeats it)
too_large(in_data) == Len(in_data) > MTU

\* send_frame: the bytes a successful call writes
send_frame(header, in_data) == kiss_encode(to_bytes(header, in_data), 0)

\* A send that takes the frame out of the queue again when the write fails.
node_send_rolled_back(node, in_data, addr_route, wok) ==
    LET final_route == addr_route \o <<ADDRESS_SEPARATOR, node.prn.callsign>>
        quit(n, why) == [node |-> n, out |-> <<>>, result |-> why,
                         prn |-> ADDRESS_SEPARATOR]
    IN IF too_large(in_data) THEN quit(node, "Truncated")
       ELSE IF new_header_error(final_route) # "Ok"
       THEN quit(node, new_header_error(final_route))
       ELSE
       LET header == new_header(node.prn, final_route)
           advanced == [node EXCEPT !.prn = prn_next(@)]
       IN IF ~enqueue_fits(node.tx_queue, in_data) THEN quit(advanced, "Discarded")
          ELSE IF ~wok THEN quit(advanced, "Io")
          ELSE [node |-> [advanced EXCEPT
                             !.tx_queue = queue_enqueue(@, header, in_data)],
                out |-> send_frame(header, in_data),
                result |-> "Ok", prn |-> prn_current(prn_next(node.prn))]

\* send, with the send_slice and enqueue_frame it calls.  wok: the
\* transport accepts the write.  prn is the value returned on Ok.
node_send(node, in_data, addr_route, wok) ==
    LET final_route == addr_route \o <<ADDRESS_SEPARATOR, node.prn.callsign>>
        quit(n, why) == [node |-> n, out |-> <<>>, result |-> why,
                         prn |-> ADDRESS_SEPARATOR]
    IN IF too_large(in_data) THEN quit(node, "Truncated")
       ELSE IF new_header_error(final_route) # "Ok"
       THEN quit(node, new_header_error(final_route))
       ELSE
       LET header == new_header(node.prn, final_route)
           advanced == [node EXCEPT !.prn = prn_next(@)]
       IN IF ~enqueue_fits(node.tx_queue, in_data) THEN quit(advanced, "Discarded")
          ELSE
          LET queued == [advanced EXCEPT
                            !.tx_queue = queue_enqueue(@, header, in_data)]
          IN IF ~wok THEN quit(queued, "Io")
             ELSE [node |-> queued, out |-> send_frame(header, in_data),
                   result |-> "Ok", prn |-> prn_current(queued.prn)]

\* What dispatch_recv did with one parsed frame: the callbacks it made, its
\* result and (out, filled in by the caller) the bytes it wrote.  seen and
\* matched record whether the ring and the transmit queue held the frame's
\* PRN when it arrived.
Event(packet, payload, recv, observe, result, seen, matched) ==
    [frame |-> packet, payload |-> payload, recv |-> recv, observe |-> observe,
     result |-> result, seen |-> seen, matched |-> matched, out |-> <<>>]

\* dispatch_recv.  wok: the transport accepts the write of the ack or of
\* the forwarded frame.
dispatch_recv(node, packet, payload, wok) ==
    LET me == node.prn.callsign
        route == packet.address_route
        seen == table_contains(node.recv_prn_table, packet.prn)
        acked == queue_ack_recv(node.tx_queue, packet.prn)
        ev(recv, observe, result) ==
            Event(packet, payload, recv, observe, result, seen, acked.found)
    IN IF is_destination(route, me)
       THEN IF final_addr(route)
            THEN IF Len(payload) = 0
                 THEN [node |-> [node EXCEPT !.tx_queue = acked.queue],
                       out |-> <<>>, event |-> ev(TRUE, TRUE, "Ok")]
                 ELSE IF ~wok
                 THEN [node |-> node, out |-> <<>>, event |-> ev(FALSE, FALSE, "Io")]
                 ELSE [node |-> IF seen THEN node
                                ELSE [node EXCEPT !.recv_prn_table =
                                                      table_add(@, packet.prn)],
                       out |-> kiss_encode(
                                   to_bytes(new_ack(packet.prn, reverse(route)), <<>>), 0),
                       event |-> ev(~seen, TRUE, "Ok")]
            ELSE IF ~advance_ok(route)
            THEN [node |-> node, out |-> <<>>, event |-> ev(FALSE, FALSE, "Routing")]
            ELSE IF ~wok
            THEN [node |-> node, out |-> <<>>, event |-> ev(FALSE, FALSE, "Send")]
            ELSE [node |-> node,
                  out |-> send_frame([packet EXCEPT !.address_route = advance(@, me)],
                                     payload),
                  event |-> ev(FALSE, TRUE, "Ok")]
       ELSE [node |-> node, out |-> <<>>, event |-> ev(FALSE, TRUE, "Ok")]

\* The state of one recv call: the node, the bytes written so far, the
\* dispatch events so far, the result so far, the number of transport
\* writes that will still succeed, the bytes drained from recv_buffer and
\* the bytes read from the transport.
RecvStart(node, writes) ==
    [node |-> node, out |-> <<>>, events |-> <<>>, result |-> "Ok",
     writes |-> writes, drained |-> 0, read |-> 0]

\* recv's inner loop: decode, parse and dispatch the frames of recv_buffer
\* until decode finds none or a frame's result is an error.
RECURSIVE parse_loop(_)

\* The end of one turn of the loop: the drain of the decoded bytes, which
\* panics when they are more than recv_buffer holds, then try!(result).
recv_drain(after, bytes_read) ==
    IF bytes_read > Len(after.node.recv_buffer)
    THEN [after EXCEPT !.result = "Panic"]
    ELSE IF after.result # "Ok"
    THEN [after EXCEPT !.node.recv_buffer = Drop(@, bytes_read),
                       !.drained = @ + bytes_read]
    ELSE parse_loop([after EXCEPT !.node.recv_buffer = Drop(@, bytes_read),
                                  !.drained = @ + bytes_read])

\* The state of the call after dispatch_recv returned d.
recv_dispatched(st, d) ==
    [st EXCEPT !.node = d.node,
               !.out = @ \o d.out,
               !.events = Append(@, [d.event EXCEPT !.out = d.out]),
               !.result = d.event.result,
               !.writes = IF d.out # <<>> THEN @ - 1 ELSE @]

\* The match on from_bytes' result: dispatch_recv on Ok, the error else.
recv_parsed(st, parsed, bytes_read) ==
    IF parsed.tag = "Panic" THEN [st EXCEPT !.result = "Panic"]
    ELSE IF parsed.tag = "Ok"
    THEN recv_drain(recv_dispatched(st, dispatch_recv(st.node, parsed.frame,
                                                      parsed.payload, st.writes > 0)),
                    bytes_read)
    ELSE recv_drain([st EXCEPT !.result = parsed.tag], bytes_read)

\* The match on decode's result.
recv_decoded(st, decoded) ==
    IF ~decoded.some THEN [st EXCEPT !.node.kiss_frame_scratch = decoded.decoded]
    ELSE recv_parsed([st EXCEPT !.node.kiss_frame_scratch = decoded.decoded],
                     from_bytes(decoded.decoded, decoded.payload_size),
                     decoded.bytes_read)

parse_loop(st) == recv_decoded(st, kiss_decode(st.node.recv_buffer))

\* recv's outer loop over the transport's reads: reads[i] is what the i-th
\* read returns, and the read after the last returns 0.
RECURSIVE read_loop(_, _, _)

\* After the i-th read was parsed: an error ends the call.
recv_read(parsed, reads, i) ==
    IF parsed.result # "Ok" THEN parsed ELSE read_loop(parsed, reads, i + 1)

read_loop(st, reads, i) ==
    IF i > Len(reads) THEN st
    ELSE recv_read(parse_loop([st EXCEPT !.node.recv_buffer = @ \o reads[i],
                                         !.read = @ + Len(reads[i])]),
                   reads, i)

node_recv(node, reads, writes) == read_loop(RecvStart(node, writes), reads, 1)

\* What the reads of a transport holding bytes return: SCRACH_SIZE bytes at
\* a time.
RECURSIVE cursor_reads(_)
cursor_reads(bytes) ==
    IF Len(bytes) = 0 THEN <<>>
    ELSE IF Len(bytes) <= SCRACH_SIZE THEN <<bytes>>
    ELSE <<Take(bytes, SCRACH_SIZE)>> \o cursor_reads(Drop(bytes, SCRACH_SIZE))

(***************************************************************************)
(* The stations and what every specification below shares                  *)
(***************************************************************************)
\* address::encode of the callsigns the tests use, in the order of the
\* tests' node vector
KI7EST0 == <<107, 92, 77, 140>>
TEST000 == <<0, 21, 53, 21>>
TEST010 == <<3, 175, 217, 21>>
TEST020 == <<7, 74, 125, 21>>

StationOrder == <<KI7EST0, TEST000, TEST010, TEST020>>

Stations == {StationOrder[i] : i \in 1..Len(StationOrder)}

VARIABLES
    nodes,      \* station -> its Node
    crashed,    \* the stations whose recv panicked
    rx_frame,   \* a byte pipe: what is read
    tx_frame,   \* a byte pipe: what is written
    pos,        \* station -> how many bytes of its pipe it has read
    sent,       \* the sends that returned Ok, in order
    heard,      \* station -> bag of the data frames dispatched as ending there
    got,        \* station -> bag of the data frames passed to its recv callback
    last,       \* the last operation and what it did
    count,      \* how many operations of each bounded kind have happened
    queue,      \* a Queue used on its own
    queue_prn,  \* the PRN generator its headers come from
    track       \* per frame enqueued in queue, what its callbacks were given

vars == <<nodes, crashed, rx_frame, tx_frame, pos, sent, heard, got, last,
          count, queue, queue_prn, track>>

\* The record of an operation: input is the payload given to send or the
\* bytes the transport of recv held, read how many of them recv read, held
\* how many bytes recv_buffer held before, drained how many bytes recv
\* removed from it, freed how many bytes left the transmit queue, writes how
\* many writes the transport would accept.
NoOp ==
    [op |-> "none", node |-> KI7EST0, result |-> "Ok", input |-> <<>>,
     events |-> <<>>, out |-> <<>>, read |-> 0, held |-> 0, drained |-> 0,
     freed |-> 0, writes |-> 0]

Init ==
    /\ nodes = [n \in Stations |-> node_new(n)]
    /\ crashed = {}
    /\ rx_frame = <<>>
    /\ tx_frame = <<>>
    /\ pos = [n \in Stations |-> 0]
    /\ sent = <<>>
    /\ heard = [n \in Stations |-> EmptyBag]
    /\ got = [n \in Stations |-> EmptyBag]
    /\ last = NoOp
    /\ count = [sends |-> 0, rounds |-> 0, noise |-> 0, pieces |-> 0, acks |-> 0,
                discarded |-> 0]
    /\ queue = queue_new
    /\ queue_prn = prn_new(KI7EST0)
    /\ track = <<>>

\* Does a frame end at the station me: route[0] is me or broadcast and
\* route[1] is the separator.
EndsAt(frame, me) ==
    /\ frame.address_route[1] \in {me, BROADCAST_ADDRESS}
    /\ frame.address_route[2] = ADDRESS_SEPARATOR

\* The bag of <<prn, payload>> of the events es[i], es[i+1], ...
RECURSIVE EventBag(_, _)
EventBag(es, i) ==
    IF i > Len(es) THEN EmptyBag
    ELSE SetToBag({<<es[i].frame.prn, es[i].payload>>}) (+) EventBag(es, i + 1)

\* A client of station o calls send; last.out is what the call wrote.
DoSend(o, route, payload, wok) ==
    \E r \in {node_send(nodes[o], payload, route, wok)} :
        /\ o \notin crashed
        /\ nodes' = [nodes EXCEPT ![o] = r.node]
        /\ sent' = IF r.result = "Ok"
                   THEN Append(sent, [origin |-> o, route |-> route,
                                      payload |-> payload, prn |-> r.prn,
                                      wire |-> r.out])
                   ELSE sent
        /\ last' = [NoOp EXCEPT !.op = "send", !.node = o, !.result = r.result,
                                 !.input = payload, !.out = r.out,
                                 !.writes = IF wok THEN 1 ELSE 0]

\* Station n calls recv on a transport that holds bytes and accepts writes
\* writes; last.out is what the call wrote and last.read the number of bytes
\* it read.
DoRecv(n, bytes, writes) ==
    \E r \in {node_recv(nodes[n], cursor_reads(bytes), writes)} :
        LET data_here(e) == e.payload # <<>> /\ EndsAt(e.frame, n) /\ e.result = "Ok"
            data_recv(e) == e.payload # <<>> /\ e.recv
        IN /\ n \notin crashed
           /\ nodes' = [nodes EXCEPT ![n] = r.node]
           /\ crashed' = IF r.result = "Panic" THEN crashed \cup {n} ELSE crashed
           /\ heard' = [heard EXCEPT
                           ![n] = @ (+) EventBag(SelectSeq(r.events, data_here), 1)]
           /\ got' = [got EXCEPT
                         ![n] = @ (+) EventBag(SelectSeq(r.events, data_recv), 1)]
           /\ last' = [op |-> "recv", node |-> n, result |-> r.result,
                       input |-> bytes, events |-> r.events, out |-> r.out,
                       read |-> r.read, held |-> Len(nodes[n].recv_buffer),
                       drained |-> r.drained,
                       freed |-> Len(nodes[n].tx_queue.data)
                                   - Len(r.node.tx_queue.data),
                       writes |-> writes]

(***************************************************************************)
(* Spec: the relay network of test_route and test_broadcast_route.  Every  *)
(* write of every station goes to tx_frame, every station reads rx_frame,  *)
(* in the order of the node vector, and a swap makes what was written the  *)
(* next thing to be read.  No transport fails.                             *)
(***************************************************************************)
MaxSends == 1
MaxRounds == 5

\* The payload sent: KISS must escape its first two bytes.
Payloads == {<<FEND, FESC, 5>>}

\* The station whose client sends, as in the tests: the first of the vector.
\* It sends when the link is idle.
Senders == {StationOrder[1]}

\* The routes a station passes to send: one hop, a relay chain of one or two
\* hops, a broadcast relay, a relay to a broadcast relay (the route of
\* test_broadcast_route), a broadcast to all, a relay to all.
Routes(o) ==
    LET others == Stations \ {o}
    IN {<<d>> : d \in others \cup {BROADCAST_ADDRESS}}
         \cup {r \in others \X others : r[1] # r[2]}
         \cup {r \in others \X others \X others :
                    r[1] # r[2] /\ r[1] # r[3] /\ r[2] # r[3]}
         \cup {<<BROADCAST_ADDRESS, d>> : d \in others}
         \cup {<<r[1], BROADCAST_ADDRESS, r[2]>> :
                    r \in {x \in others \X others : x[1] # x[2]}}
         \cup {<<h, BROADCAST_ADDRESS>> : h \in others}

\* Has every station before StationOrder[i] read all of rx_frame?
MyTurn(n) ==
    \A i \in 1..Len(StationOrder) : \A j \in 1..Len(StationOrder) :
        (StationOrder[j] = n /\ i < j /\ StationOrder[i] \notin crashed)
            => pos[StationOrder[i]] = Len(rx_frame)

Send(o, route, payload) ==
    /\ count.sends < MaxSends
    /\ tx_frame = <<>>
    /\ \A n \in Stations \ crashed : pos[n] = Len(rx_frame)
    /\ DoSend(o, route, payload, TRUE)
    /\ tx_frame' = tx_frame \o last'.out
    /\ count' = [count EXCEPT !.sends = @ + 1]
    /\ UNCHANGED <<crashed, rx_frame, pos, heard, got, queue, queue_prn, track>>

\* recv on a transport that holds the unread bytes of rx_frame and accepts
\* every write.
Recv(n) ==
    /\ pos[n] < Len(rx_frame)
    /\ MyTurn(n)
    /\ DoRecv(n, Drop(rx_frame, pos[n]), Len(rx_frame))
    /\ tx_frame' = tx_frame \o last'.out
    /\ pos' = [pos EXCEPT ![n] = @ + last'.read]
    /\ UNCHANGED <<rx_frame, sent, count, queue, queue_prn, track>>

\* Every station that still runs has read rx_frame: what was written is
\* what is read next.
Swap ==
    /\ count.rounds < MaxRounds
    /\ tx_frame # <<>>
    /\ \A n \in Stations \ crashed : pos[n] = Len(rx_frame)
    /\ rx_frame' = tx_frame
    /\ tx_frame' = <<>>
    /\ pos' = [n \in Stations |-> 0]
    /\ count' = [count EXCEPT !.rounds = @ + 1]
    /\ last' = NoOp
    /\ UNCHANGED <<nodes, crashed, sent, heard, got, queue, queue_prn, track>>

Next ==
    \/ \E o \in Senders : \E route \in Routes(o) : \E payload \in Payloads :
           Send(o, route, payload)
    \/ \E n \in Stations : Recv(n)
    \/ Swap

Spec == Init /\ [][Next]_vars

(***************************************************************************)
(* Properties of Spec                                                      *)
(***************************************************************************)
\* Nothing is left to read or to swap in: the network is at rest.
Quiet ==
    /\ tx_frame = <<>>
    /\ \A n \in Stations \ crashed : pos[n] = Len(rx_frame)

\* A relay chain: at least one hop, every address a station, none twice.
IsChain(s) ==
    /\ Len(s.route) >= 2
    /\ \A i \in 1..Len(s.route) : s.route[i] \in Stations \ {s.origin}
    /\ \A i \in 1..Len(s.route) : \A j \in 1..Len(s.route) :
           i # j => s.route[i] # s.route[j]

\* The ack the station at the end of s.route writes for the frame of s.
AckOf(s) ==
    kiss_encode(to_bytes(new_ack(s.prn, <<s.origin, ADDRESS_SEPARATOR>>
                                           \o [i \in 1..Len(s.route) |->
                                                  s.route[Len(s.route) + 1 - i]]),
                         <<>>), 0)

\* C2: when a frame sent along a relay chain of working links has reached
\* its final destination and the ack that destination wrote has travelled
\* as far as it goes, no station has a pending entry left in its transmit
\* queue, the origin included.
C2_QueuesEmptyAfterRelayedAck ==
    (/\ Quiet
     /\ Len(sent) = 1
     /\ IsChain(sent[1])
     /\ crashed = {}
     /\ BagIn(<<sent[1].prn, sent[1].payload>>,
              got[sent[1].route[Len(sent[1].route)]]))
        => \A n \in Stations : pending_packets(nodes[n].tx_queue) = 0

\* The same for a frame sent over one hop: here the ack ends at the origin.
OneHopQueuesEmpty ==
    (/\ Quiet
     /\ Len(sent) = 1
     /\ Len(sent[1].route) = 1
     /\ sent[1].route[1] \in Stations
     /\ BagIn(<<sent[1].prn, sent[1].payload>>, got[sent[1].route[1]]))
        => \A n \in Stations : pending_packets(nodes[n].tx_queue) = 0

\* C3: every data frame dispatched as ending at a station is acknowledged
\* on the transport, along the reversed route, and passed to observe_cb,
\* and however many copies with one PRN a station is given, recv_cb gets
\* that frame exactly once.
C3_DuplicatesAckedNotRedelivered ==
    /\ \A n \in Stations : \A x \in BagToSet(heard[n]) : CopiesIn(x, got[n]) = 1
    /\ \A n \in Stations : \A x \in BagToSet(got[n]) : BagIn(x, heard[n])
    /\ last.op = "recv" =>
           \A i \in 1..Len(last.events) :
               LET e == last.events[i]
               IN (e.payload # <<>> /\ EndsAt(e.frame, last.node)) =>
                      /\ e.observe
                      /\ e.recv = ~e.seen
                      /\ e.out = kiss_encode(
                                     to_bytes(new_ack(e.frame.prn,
                                                      reverse(e.frame.address_route)),
                                              <<>>), 0)

\* A station was given a second copy of a data frame, acknowledged it and
\* did not pass it to recv_cb again.
C3_DuplicateArrived ==
    /\ last.op = "recv"
    /\ \E i \in 1..Len(last.events) :
           /\ last.events[i].seen
           /\ last.events[i].payload # <<>>
           /\ last.events[i].out # <<>>
           /\ ~last.events[i].recv
    /\ \E x \in BagToSet(heard[last.node]) : CopiesIn(x, heard[last.node]) >= 2

MaxLinkSends == 1
MaxNoise == 1
MaxPiece == 3
BigLen == 300

LinkLocal == StationOrder[1]
LinkRemote == StationOrder[3]

\* A payload KISS must escape, and one whose frame is longer than a read.
LinkPayloads == {<<FEND, FESC, 5>>, Fill(7, BigLen)}

\* To the remote station, through it, and to a station that is not there.
LinkRoutes == {<<LinkRemote>>, <<LinkRemote, StationOrder[2]>>, <<StationOrder[2]>>}

NoiseKinds == {"crc", "address", "short", "route"}

\* A KISS frame from elsewhere: one whose CRC is wrong, one with a word
\* that is not the separator after MAX_LENGTH route words, one too short to
\* hold a PRN, and a well-formed one whose route leaves advance no room.
NoiseFrame(kind) ==
    LET prn == prn_current(prn_new(StationOrder[2]))
        back == <<ADDRESS_SEPARATOR, StationOrder[2]>>
        good == to_bytes(new_ack(prn, gen_route(<<LinkRemote>> \o back)), <<1, 2>>)
        long == <<LinkRemote, ADDRESS_SEPARATOR>> \o Fill(StationOrder[2], MAX_LENGTH - 1)
        full == <<LinkRemote>> \o Fill(StationOrder[2], MAX_LENGTH - 2)
                    \o <<ADDRESS_SEPARATOR>>
    IN kiss_encode(
           CASE kind = "crc" ->
                    [good EXCEPT ![Len(good)] = (@ + 1) % 256]
             [] kind = "address" -> to_bytes(new_ack(prn, long), <<1, 2>>)
             [] kind = "short" -> <<1, 2, 3>>
             [] kind = "route" -> to_bytes(new_ack(prn, full), <<1, 2>>),
           0)

\* The sizes of what a transport that has n bytes to give may hand over.
Pieces(n) == {n} \cup {k \in 1..MaxPiece : k < n}

LinkSend(route, payload) ==
    /\ count.sends < MaxLinkSends
    /\ DoSend(LinkLocal, route, payload, TRUE)
    /\ rx_frame' = rx_frame \o last'.out
    /\ count' = [count EXCEPT !.sends = @ + 1]
    /\ UNCHANGED <<crashed, tx_frame, pos, heard, got, queue, queue_prn, track>>

LinkNoise(kind) ==
    /\ count.noise < MaxNoise
    /\ rx_frame' = rx_frame \o NoiseFrame(kind)
    /\ count' = [count EXCEPT !.noise = @ + 1]
    /\ last' = [NoOp EXCEPT !.op = "noise", !.out = NoiseFrame(kind)]
    /\ UNCHANGED <<nodes, crashed, tx_frame, pos, sent, heard, got, queue,
                   queue_prn, track>>

\* The remote station calls recv on a transport that holds the next k
\* unread bytes and accepts the given number of writes.
LinkRecv(k, writes) ==
    /\ k \in Pieces(Len(rx_frame) - pos[LinkRemote])
    /\ k > 0
    /\ DoRecv(LinkRemote, SubSeq(rx_frame, pos[LinkRemote] + 1, pos[LinkRemote] + k),
              writes)
    /\ tx_frame' = tx_frame \o last'.out
    /\ pos' = [pos EXCEPT ![LinkRemote] = @ + last'.read]
    /\ count' = [count EXCEPT !.pieces = @ + 1]
    /\ UNCHANGED <<rx_frame, sent, queue, queue_prn, track>>

\* The local station calls recv on a transport that holds what the remote
\* one has written since.
LinkAck ==
    /\ pos[LinkLocal] < Len(tx_frame)
    /\ DoRecv(LinkLocal, Drop(tx_frame, pos[LinkLocal]), Len(tx_frame))
    /\ rx_frame' = rx_frame \o last'.out
    /\ pos' = [pos EXCEPT ![LinkLocal] = @ + last'.read]
    /\ UNCHANGED <<tx_frame, sent, count, queue, queue_prn, track>>

NextLink ==
    \/ \E route \in LinkRoutes : \E payload \in LinkPayloads : LinkSend(route, payload)
    \/ \E kind \in NoiseKinds : LinkNoise(kind)
    \/ \E k \in 1..(BigLen + MTU) : \E writes \in {0, BigLen} : LinkRecv(k, writes)
    \/ LinkAck

SpecLink == Init /\ [][NextLink]_vars

(***************************************************************************)
(* Properties of SpecLink                                                  *)
(***************************************************************************)
\* C1: when the local station has sent a non-empty payload with the route
\* [remote] and recv of the remote station is given the bytes that send
\* wrote, on a transport that accepts writes, recv_cb gets exactly that
\* payload and the ack is written; and when recv of the local station is
\* given those ack bytes, observe_cb sees a frame with no payload whose prn
\* is the value send returned, and the local transmit queue has no pending
\* entry afterwards.
C1_SingleHopDelivery ==
    \A i \in 1..Len(sent) :
        (sent[i].route = <<LinkRemote>> /\ sent[i].payload # <<>>) =>
            /\ (/\ last.op = "recv"
                /\ last.node = LinkRemote
                /\ last.held = 0
                /\ last.writes > 0
                /\ last.input = sent[i].wire)
                   => /\ last.result = "Ok"
                      /\ Len(last.events) = 1
                      /\ last.events[1].recv
                      /\ last.events[1].payload = sent[i].payload
                      /\ last.out = AckOf(sent[i])
            /\ (/\ last.op = "recv"
                /\ last.node = sent[i].origin
                /\ last.held = 0
                /\ last.input = AckOf(sent[i]))
                   => /\ last.result = "Ok"
                      /\ Len(last.events) = 1
                      /\ last.events[1].observe
                      /\ last.events[1].payload = <<>>
                      /\ last.events[1].frame.prn = sent[i].prn
                      /\ pending_packets(nodes[sent[i].origin].tx_queue) = 0

\* C1 for the payloads whose frame one read of the transport holds.
ShortSingleHopDelivery ==
    (\A i \in 1..Len(sent) : Len(sent[i].wire) <= SCRACH_SIZE) => C1_SingleHopDelivery

\* The ack of a one-hop send came back and emptied the local queue.
ShortSingleHopAcked ==
    /\ last.op = "recv"
    /\ last.node = LinkLocal
    /\ \E i \in 1..Len(sent) : last.input = AckOf(sent[i])
    /\ pending_packets(nodes[LinkLocal].tx_queue) = 0

\* Does a buffer start with a KISS frame that is all there and parses?
HoldsFrame(buffer) ==
    /\ kiss_decode(buffer).some
    /\ kiss_decode(buffer).bytes_read <= Len(buffer)
    /\ from_bytes(kiss_decode(buffer).decoded,
                  kiss_decode(buffer).payload_size).tag = "Ok"

\* C6: when recv decodes a KISS frame that does not parse (truncated, bad
\* address, CRC mismatch), the frame's bytes are drained, no callback fires
\* for it, and the same call goes on to the well-formed frames after it:
\* none is left in recv_buffer when the call returns.
C6_ParseErrorsNotFatal ==
    (/\ last.op = "recv"
     /\ last.result \in {"IO", "BadAddress", "Truncated", "CRCFailure"})
        => /\ last.drained > 0
           /\ \A i \in 1..Len(last.events) : last.events[i].result = "Ok"
           /\ ~HoldsFrame(nodes[last.node].recv_buffer)

\* Is head a proper, non-empty prefix of bytes?
ProperPrefix(head, bytes) ==
    /\ Len(head) > 0
    /\ Len(head) < Len(bytes)
    /\ head = Take(bytes, Len(head))

\* What one recv call of a new remote station does when its transport
\* returns the given reads.
FreshRecv(reads) ==
    [f \in {"node", "out", "events", "result"} |->
        node_recv(node_new(LinkRemote), reads, 1)[f]]

\* C7: for a frame that send wrote and a split point inside it, giving recv
\* the two parts in separate reads does what giving it the frame in one
\* piece does (the same callbacks, writes and node afterwards), and a recv
\* call that is given only the first part fires no callback, writes
\* nothing, drains nothing and returns Ok.
C7_FramesInPieces ==
    \A i \in 1..Len(sent) :
        /\ \A k \in 1..MaxPiece :
               k < Len(sent[i].wire) =>
                   FreshRecv(cursor_reads(Take(sent[i].wire, k))
                                 \o cursor_reads(Drop(sent[i].wire, k)))
                       = FreshRecv(cursor_reads(sent[i].wire))
        /\ (/\ last.op = "recv"
            /\ last.held = 0
            /\ ProperPrefix(last.input, sent[i].wire))
               => /\ last.result = "Ok"
                  /\ last.events = <<>>
                  /\ last.out = <<>>
                  /\ last.drained = 0

\* C8: observe_cb is called for every frame recv parses, whatever the
\* station is to the frame, also when the write of the ack or of the
\* forwarded frame fails and when advance rejects the route.
C8_ObserveEveryParsedFrame ==
    last.op = "recv" =>
        \A i \in 1..Len(last.events) : last.events[i].observe

\* C8 for the frames whose dispatch returns Ok.
ObserveEveryDispatchedFrame ==
    last.op = "recv" =>
        \A i \in 1..Len(last.events) :
            last.events[i].result = "Ok" => last.events[i].observe

(***************************************************************************)
(* SpecQueue: a Queue on its own, as in the tests of tx_queue.rs.  Frames  *)
(* are enqueued, acknowledged and ticked; track holds, per frame, what the *)
(* callbacks of tick were given for it.                                    *)
(***************************************************************************)
MaxFrames == 2

\* create_sample_packet: the header's route is the generator's own
\* callsign, the data are the bytes 0, 1, 2, ...
create_sample_packet(prn, size) ==
    [header |-> new_header(prn, <<prn.callsign, ADDRESS_SEPARATOR, prn.callsign>>),
     data |-> [i \in 1..size |-> (i - 1) % 256]]

\* The size of the frames enqueued, as in test_enqueue.
SampleSizes == {MAX_PACKET}

\* The times a tick is given: the first delay, and the longest a retry can
\* be delayed.
TickTimes == {RETRY_DELAY_MS, RETRY_DELAY_MS * (1 + RETRY_COUNT)}

\* How many of the calls are of one kind and for one PRN.
CallCount(calls, kind, prn) ==
    Cardinality({k \in 1..Len(calls) : calls[k].call = kind /\ calls[k].packet.prn = prn})

\* The record kept of a frame: was it enqueued, how often retry and
\* discard were called for it, how many ticks found it due, did a tick of
\* the longest delay find it not due, and what rules it out of the count
\* (it was acknowledged, a tick began above CONGEST_CONTROL, a retry
\* callback failed).
Tracked(prn, queued) ==
    [prn |-> prn, queued |-> queued, retries |-> 0, discards |-> 0, due |-> 0,
     missed |-> FALSE, out |-> FALSE]

\* track after a tick that started from queue before and did r.
TrackTick(before, r, elapsed_ms) ==
    [i \in 1..Len(track) |->
        LET at == prn_position(before, track[i].prn)
        IN IF at = 0 \/ track[i].out THEN track[i]
           ELSE IF r.err \/ Len(before.data) > CONGEST_CONTROL
           THEN [Tracked(track[i].prn, TRUE) EXCEPT !.out = TRUE]
           ELSE [track[i] EXCEPT
                    !.retries = @ + CallCount(r.calls, "retry", track[i].prn),
                    !.discards = @ + CallCount(r.calls, "discard", track[i].prn),
                    !.due = IF before.pending[at].next_send <= elapsed_ms
                            THEN @ + 1 ELSE @,
                    !.missed = @ \/ (/\ elapsed_ms >= RETRY_DELAY_MS * (1 + RETRY_COUNT)
                                     /\ before.pending[at].next_send > elapsed_ms)]]

\* How many entries a tick of elapsed_ms finds due: it draws at most once
\* for each.
DueCount(q, elapsed_ms) ==
    Cardinality({k \in 1..Len(q.pending) : q.pending[k].next_send <= elapsed_ms})

QEnqueue(size) ==
    /\ Len(track) < MaxFrames
    /\ \E sample \in {create_sample_packet(queue_prn, size)} :
           /\ queue_prn' = prn_next(queue_prn)
           /\ IF enqueue_fits(queue, sample.data)
              THEN /\ queue' = queue_enqueue(queue, sample.header, sample.data)
                   /\ last' = [NoOp EXCEPT !.op = "enqueue", !.input = sample.data]
              ELSE /\ queue' = queue
                   /\ last' = [NoOp EXCEPT !.op = "enqueue", !.input = sample.data,
                                           !.result = "Discarded"]
           /\ track' = Append(track, Tracked(sample.header.prn,
                                              enqueue_fits(queue, sample.data)))
    /\ UNCHANGED <<nodes, crashed, rx_frame, tx_frame, pos, sent, heard, got, count>>

QAck(i) ==
    /\ i \in 1..Len(track)
    /\ track[i].queued
    /\ ~track[i].out
    /\ \E r \in {queue_ack_recv(queue, track[i].prn)} :
           /\ queue' = r.queue
           /\ last' = [NoOp EXCEPT !.op = "ack",
                                   !.result = IF r.found THEN "Ok" ELSE "None",
                                   !.freed = Len(queue.data) - Len(r.queue.data)]
    /\ track' = [track EXCEPT ![i] = [Tracked(@.prn, TRUE) EXCEPT !.out = TRUE]]
    /\ UNCHANGED <<nodes, crashed, rx_frame, tx_frame, pos, sent, heard, got, count,
                   queue_prn>>

QTick(elapsed_ms, rnd, fail_at) ==
    /\ queue.pending # <<>>
    /\ fail_at # 0 => \A k \in DOMAIN rnd : rnd[k] = 0
    /\ \A k \in DOMAIN rnd : k > DueCount(queue, elapsed_ms) => rnd[k] = 0
    /\ \E r \in {queue_tick(queue, elapsed_ms, rnd, fail_at)} :
           /\ fail_at # 0 => r.err
           /\ queue' = r.queue
           /\ track' = TrackTick(queue, r, elapsed_ms)
           /\ last' = [NoOp EXCEPT !.op = "tick",
                                   !.result = IF r.err THEN "Io" ELSE "Ok"]
    /\ UNCHANGED <<nodes, crashed, rx_frame, tx_frame, pos, sent, heard, got, count,
                   queue_prn>>

NextQueue ==
    \/ \E size \in SampleSizes : QEnqueue(size)
    \/ \E i \in 1..MaxFrames : QAck(i)
    \/ \E elapsed_ms \in TickTimes : \E rnd \in [1..MaxFrames -> 0..RndSteps] :
           \E fail_at \in {0, 1} : QTick(elapsed_ms, rnd, fail_at)

SpecQueue == Init /\ [][NextQueue]_vars

\* C4: a frame that was enqueued and never acknowledged, while the queue
\* was at or below CONGEST_CONTROL at every tick and no retry callback
\* failed, has been given to retry_cb once per tick that found it due, up
\* to RETRY_COUNT times, and to discard_cb once when a further tick found
\* it due, after which the queue has no pending entry for it; and every
\* tick of RETRY_DELAY_MS * (1 + RETRY_COUNT) ms finds it due, so that
\* RETRY_COUNT + 1 of them bring it there.
C4_RetryCounting ==
    \A i \in 1..Len(track) :
        (track[i].queued /\ ~track[i].out)
            => /\ track[i].due <= RETRY_COUNT + 1
               /\ track[i].retries = (IF track[i].due <= RETRY_COUNT
                                      THEN track[i].due ELSE RETRY_COUNT)
               /\ track[i].discards = (IF track[i].due > RETRY_COUNT THEN 1 ELSE 0)
               /\ track[i].discards = 1 <=> prn_position(queue, track[i].prn) = 0
               /\ ~track[i].missed

\* A frame was retried RETRY_COUNT times and then discarded.
C4_RetriedThenDiscarded ==
    \E i \in 1..Len(track) :
        /\ track[i].queued
        /\ ~track[i].out
        /\ track[i].retries = RETRY_COUNT
        /\ track[i].discards = 1
        /\ track[i].due = RETRY_COUNT + 1
        /\ prn_position(queue, track[i].prn) = 0

(***************************************************************************)
(* SpecSend: one station and its client, as test_discard drives a queue.   *)
(* The client may begin with a burst of sends that fills the queue, then   *)
(* sends single payloads of a few lengths, and the peer acknowledges the   *)
(* oldest pending frame.  Every write succeeds.                            *)
(***************************************************************************)
MaxOps == 3

SendLocal == StationOrder[1]
SendRemote == StationOrder[3]

\* The payload length of test_discard's fill loop.
BurstLen == 1024

\* The lengths the client sends: one byte, a burst payload, the largest
\* payload and the first that is too large.
SendSizes == {1, BurstLen, MTU, MTU + 1}

\* test_discard's first loop on a node: send payloads of BurstLen bytes, the
\* i-th holding the byte i, until one of them is refused.
RECURSIVE burst_loop(_, _)
burst_step(r, i) == IF r.result = "Ok" THEN burst_loop(r.node, i + 1) ELSE r.node

burst_loop(node, i) ==
    burst_step(node_send(node, Fill(i % 256, BurstLen), <<SendRemote>>, TRUE), i)

\* The ack the remote station writes for the pending entry p.
ack_for(p) == send_frame(new_ack(p.packet.prn, reverse(p.packet.address_route)), <<>>)

Burst ==
    /\ last.op = "none"
    /\ nodes' = [nodes EXCEPT ![SendLocal] = burst_loop(@, 0)]
    /\ last' = [NoOp EXCEPT !.op = "burst", !.node = SendLocal]
    /\ count' = [count EXCEPT !.rounds = @ + 1]
    /\ UNCHANGED <<crashed, rx_frame, tx_frame, pos, sent, heard, got, queue,
                   queue_prn, track>>

BulkSend(size) ==
    /\ count.sends + count.acks < MaxOps
    /\ DoSend(SendLocal, <<SendRemote>>, Fill(7, size), TRUE)
    /\ count' = [count EXCEPT !.sends = @ + 1,
                              !.discarded = IF last'.result = "Discarded"
                                            THEN @ + 1 ELSE @]
    /\ UNCHANGED <<crashed, rx_frame, tx_frame, pos, heard, got, queue, queue_prn,
                   track>>

PeerAck ==
    /\ count.sends + count.acks < MaxOps
    /\ nodes[SendLocal].tx_queue.pending # <<>>
    /\ DoRecv(SendLocal, ack_for(nodes[SendLocal].tx_queue.pending[1]), 1)
    /\ count' = [count EXCEPT !.acks = @ + 1]
    /\ UNCHANGED <<rx_frame, tx_frame, pos, sent, queue, queue_prn, track>>

NextSend ==
    \/ Burst
    \/ \E size \in SendSizes : BulkSend(size)
    \/ PeerAck

SpecSend == Init /\ [][NextSend]_vars

\* The bytes and entries the transmit queue of the sending station holds.
QueuedBytes == Len(nodes[SendLocal].tx_queue.data)

\* C5: the queued payload bytes never exceed BLOCK_SIZE; a send that reaches
\* enqueue is Discarded exactly when the queued bytes plus its payload
\* exceed BLOCK_SIZE; a Discarded send leaves the pending entries and the
\* queued bytes as they were and writes nothing; and a send of n bytes right
\* after an ack that freed at least n bytes is not Discarded.
C5_QueueBounded ==
    /\ [](QueuedBytes <= BLOCK_SIZE)
    /\ [][count'.sends = count.sends + 1 =>
            /\ last'.result # "Truncated" =>
                   (last'.result = "Discarded"
                      <=> QueuedBytes + Len(last'.input) > BLOCK_SIZE)
            /\ last'.result = "Discarded" =>
                   /\ nodes'[SendLocal].tx_queue = nodes[SendLocal].tx_queue
                   /\ last'.out = <<>>
                   /\ sent' = sent
            /\ (/\ last.op = "recv"
                /\ last.freed >= Len(last'.input)
                /\ last'.result # "Truncated") => last'.result = "Ok"]_vars

\* A full queue refused a send, an ack freed an entry and a send of its size
\* filled the queue again.
C5_RefilledAfterAck ==
    /\ last.op = "send"
    /\ last.result = "Ok"
    /\ count.discarded >= 1
    /\ count.acks >= 1
    /\ QueuedBytes = BLOCK_SIZE

\* C10: a send of a payload longer than MTU returns Truncated and changes
\* nothing (PRN generator, queue, transport); a send of exactly MTU bytes is
\* not Truncated, and when the queue has room it is enqueued and written.
C10_OversizeRejected ==
    [][count'.sends = count.sends + 1 =>
          /\ Len(last'.input) > MTU =>
                 /\ last'.result = "Truncated"
                 /\ nodes' = nodes
                 /\ last'.out = <<>>
                 /\ sent' = sent
          /\ Len(last'.input) = MTU =>
                 /\ last'.result # "Truncated"
                 /\ QueuedBytes + MTU <= BLOCK_SIZE =>
                        /\ last'.result = "Ok"
                        /\ QueuedBytes' = QueuedBytes + MTU
                        /\ last'.out # <<>>]_vars

\* A payload of MTU + 1 bytes was refused after one of MTU bytes was queued.
C10_RefusedAfterLargest ==
    /\ last.op = "send"
    /\ Len(last.input) = MTU + 1
    /\ last.result = "Truncated"
    /\ \E i \in 1..Len(nodes[SendLocal].tx_queue.pending) :
           nodes[SendLocal].tx_queue.pending[i].data_size = MTU

(***************************************************************************)
(* Properties of Spec: relay chains and broadcast relays                   *)
(***************************************************************************)
\* The station a chain ends at, and what its recv callback is given.
Dest(s) == s.route[Len(s.route)]

Datum(s) == <<s.prn, s.payload>>

\* Every station has read all that the round offers.
RoundRead == \A n \in Stations \ crashed : pos[n] = Len(rx_frame)

\* C11: for a data frame sent along a relay chain, a station writes the
\* frame with the route advanced when and only when the route names it as
\* the current hop (its address first, hops still to come), writing
\* otherwise nothing or, at the destination, the ack; recv_cb gets the data
\* at the destination only, never twice, and once as many rounds have
\* passed as the chain has addresses.
C11_MultiHopDelivery ==
    /\ \A i \in 1..Len(sent) :
           IsChain(sent[i]) =>
               /\ CopiesIn(Datum(sent[i]), got[Dest(sent[i])]) <= 1
               /\ \A n \in Stations \ {Dest(sent[i])} :
                      ~BagIn(Datum(sent[i]), got[n])
               /\ (/\ Len(sent) = 1
                   /\ crashed = {}
                   /\ count.rounds >= Len(sent[i].route)
                   /\ RoundRead)
                      => CopiesIn(Datum(sent[i]), got[Dest(sent[i])]) = 1
    /\ last.op = "recv" =>
           \A k \in 1..Len(last.events) :
               LET e == last.events[k]
                   current == /\ e.frame.address_route[1] = last.node
                              /\ e.frame.address_route[2] # ADDRESS_SEPARATOR
               IN (/\ e.payload # <<>>
                   /\ \E i \in 1..Len(sent) :
                          IsChain(sent[i]) /\ sent[i].prn = e.frame.prn)
                      => /\ current =>
                                e.out = send_frame(
                                            [e.frame EXCEPT !.address_route =
                                                                advance(@, last.node)],
                                            e.payload)
                         /\ ~current =>
                                \/ e.out = <<>>
                                \/ /\ EndsAt(e.frame, last.node)
                                   /\ e.out = send_frame(
                                                  new_ack(e.frame.prn,
                                                          reverse(e.frame.address_route)),
                                                  <<>>)
                         /\ e.recv => EndsAt(e.frame, last.node)

\* A frame sent along two relays has been forwarded by both and its data
\* passed to recv_cb at the destination.
C11_TwoRelaysDelivered ==
    /\ Len(sent) >= 1
    /\ IsChain(sent[1])
    /\ Len(sent[1].route) = 3
    /\ last.op = "recv"
    /\ last.node = Dest(sent[1])
    /\ \E k \in 1..Len(last.events) :
           /\ last.events[k].recv
           /\ last.events[k].payload = sent[1].payload
           /\ last.events[k].frame.address_route[3] = sent[1].route[2]
           /\ last.events[k].frame.address_route[4] = sent[1].route[1]
           /\ last.events[k].frame.address_route[5] = sent[1].origin

\* A route with the broadcast address as a forward hop that ends at one
\* station, its other hops being stations too.
IsBroadcastRelay(s) ==
    /\ Len(s.route) >= 2
    /\ Dest(s) \in Stations \ {s.origin}
    /\ \E j \in 1..(Len(s.route) - 1) : s.route[j] = BROADCAST_ADDRESS
    /\ \A j \in 1..(Len(s.route) - 1) :
           s.route[j] \in (Stations \ {s.origin, Dest(s)}) \cup {BROADCAST_ADDRESS}

\* C12: every station given a data frame whose current hop is the broadcast
\* address, with hops still to come, writes it with the route advanced by
\* its own address; the recipient at the end of the route passes the data
\* to recv_cb once, however many copies reach it, and has done so once as
\* many rounds have passed as the route has addresses; no other station
\* passes the data to recv_cb.
C12_BroadcastRelay ==
    /\ \A i \in 1..Len(sent) :
           IsBroadcastRelay(sent[i]) =>
               /\ CopiesIn(Datum(sent[i]), got[Dest(sent[i])]) <= 1
               /\ \A n \in Stations \ {Dest(sent[i])} :
                      ~BagIn(Datum(sent[i]), got[n])
               /\ (/\ Len(sent) = 1
                   /\ crashed = {}
                   /\ count.rounds >= Len(sent[i].route)
                   /\ RoundRead)
                      => CopiesIn(Datum(sent[i]), got[Dest(sent[i])]) = 1
    /\ last.op = "recv" =>
           \A k \in 1..Len(last.events) :
               LET e == last.events[k]
               IN (/\ e.payload # <<>>
                   /\ e.frame.address_route[1] = BROADCAST_ADDRESS
                   /\ e.frame.address_route[2] # ADDRESS_SEPARATOR
                   /\ \E i \in 1..Len(sent) :
                          IsBroadcastRelay(sent[i]) /\ sent[i].prn = e.frame.prn)
                      => /\ e.out = send_frame(
                                        [e.frame EXCEPT !.address_route =
                                                            advance(@, last.node)],
                                        e.payload)
                         /\ ~e.recv

\* The recipient of a broadcast relay was given copies of one frame with
\* different return paths in one call and passed the data to recv_cb once.
C12_CopiesReachedRecipient ==
    /\ Len(sent) = 1
    /\ IsBroadcastRelay(sent[1])
    /\ last.op = "recv"
    /\ last.node = Dest(sent[1])
    /\ CopiesIn(Datum(sent[1]), got[last.node]) = 1
    /\ \E k \in 1..Len(last.events) : \E m \in 1..Len(last.events) :
           /\ last.events[k].frame.prn = sent[1].prn
           /\ last.events[m].frame.prn = sent[1].prn
           /\ last.events[k].payload # <<>>
           /\ last.events[m].payload # <<>>
           /\ EndsAt(last.events[k].frame, last.node)
           /\ EndsAt(last.events[m].frame, last.node)
           /\ last.events[k].frame.address_route # last.events[m].frame.address_route

(***************************************************************************)
(* Node::tick and SpecRetry: a station sends to a peer over rx_frame, its  *)
(* clock ticks, and the peer reads what the link holds and answers over    *)
(* tx_frame.                                                               *)
(***************************************************************************)
\* The bytes the retry closure of Node::tick writes for the calls made by
\* tx_queue.tick, from call k on: frame::to_bytes straight to the transport.
RECURSIVE tick_writes(_, _)
tick_writes(calls, k) ==
    IF k > Len(calls) THEN <<>>
    ELSE IF calls[k].call = "retry"
    THEN to_bytes(calls[k].packet, calls[k].data) \o tick_writes(calls, k + 1)
    ELSE tick_writes(calls, k + 1)

\* Node::tick once tx_queue.tick has returned r.  A failing write is the
\* retry call that returns Err: it is the last call and nothing is written
\* for it.
node_ticked(node, r) ==
    [node |-> [node EXCEPT !.tx_queue = r.queue],
     out |-> tick_writes(IF r.err THEN Take(r.calls, Len(r.calls) - 1) ELSE r.calls, 1),
     calls |-> r.calls,
     result |-> IF r.err THEN "Io" ELSE "Ok"]

node_tick(node, elapsed_ms, rnd, fail_at) ==
    node_ticked(node, queue_tick(node.tx_queue, elapsed_ms, rnd, fail_at))

MaxRetrySends == 2
MaxTicks == 2

RetryLocal == StationOrder[1]
RetryRemote == StationOrder[2]

RetryPayloads == {<<FEND, FESC, 5>>, <<7>>}

RetrySend(payload) ==
    /\ count.sends < MaxRetrySends
    /\ DoSend(RetryLocal, <<RetryRemote>>, payload, TRUE)
    /\ rx_frame' = rx_frame \o last'.out
    /\ count' = [count EXCEPT !.sends = @ + 1]
    /\ UNCHANGED <<crashed, tx_frame, pos, heard, got, queue, queue_prn, track>>

RetryTick(elapsed_ms, rnd, fail_at) ==
    /\ count.rounds < MaxTicks
    /\ nodes[RetryLocal].tx_queue.pending # <<>>
    /\ fail_at # 0 => \A k \in DOMAIN rnd : rnd[k] = 0
    /\ \A k \in DOMAIN rnd :
           k > DueCount(nodes[RetryLocal].tx_queue, elapsed_ms) => rnd[k] = 0
    /\ \E r \in {node_tick(nodes[RetryLocal], elapsed_ms, rnd, fail_at)} :
           /\ fail_at # 0 => r.result = "Io"
           /\ nodes' = [nodes EXCEPT ![RetryLocal] = r.node]
           /\ rx_frame' = rx_frame \o r.out
           /\ last' = [NoOp EXCEPT !.op = "tick", !.node = RetryLocal,
                                   !.result = r.result, !.events = r.calls,
                                   !.out = r.out]
    /\ count' = [count EXCEPT !.rounds = @ + 1]
    /\ UNCHANGED <<crashed, tx_frame, pos, sent, heard, got, queue, queue_prn, track>>

\* The peer reads all the link holds.
RetryRecv ==
    /\ pos[RetryRemote] < Len(rx_frame)
    /\ DoRecv(RetryRemote, Drop(rx_frame, pos[RetryRemote]), Len(rx_frame))
    /\ tx_frame' = tx_frame \o last'.out
    /\ pos' = [pos EXCEPT ![RetryRemote] = @ + last'.read]
    /\ UNCHANGED <<rx_frame, sent, count, queue, queue_prn, track>>

\* The sender reads the acks written since.
RetryAck ==
    /\ pos[RetryLocal] < Len(tx_frame)
    /\ DoRecv(RetryLocal, Drop(tx_frame, pos[RetryLocal]), Len(tx_frame))
    /\ pos' = [pos EXCEPT ![RetryLocal] = @ + last'.read]
    /\ UNCHANGED <<rx_frame, tx_frame, sent, count, queue, queue_prn, track>>

NextRetry ==
    \/ \E payload \in RetryPayloads : RetrySend(payload)
    \/ \E rnd \in [1..MaxRetrySends -> 0..RndSteps] : \E fail_at \in {0, 1} :
           RetryTick(RETRY_DELAY_MS, rnd, fail_at)
    \/ RetryRecv
    \/ RetryAck

SpecRetry == Init /\ [][NextRetry]_vars

\* The bytes send wrote for the entries retried by the calls from call k on.
RECURSIVE RetriedFrames(_, _)
RetriedFrames(calls, k) ==
    IF k > Len(calls) THEN <<>>
    ELSE IF calls[k].call = "retry"
    THEN send_frame(calls[k].packet, calls[k].data) \o RetriedFrames(calls, k + 1)
    ELSE RetriedFrames(calls, k + 1)

\* C13: what a tick whose writes succeed puts on the transport is, for each
\* entry it retries, the KISS frame send wrote for that entry, so that a
\* peer reading exactly those bytes dispatches one frame per retry, with
\* the PRN, route and payload of the entry.
C13_RetryIsKissFrame ==
    (last.op = "tick" /\ last.result = "Ok") =>
        /\ last.out = RetriedFrames(last.events, 1)
        /\ \E heard_by_peer \in {node_recv(node_new(RetryRemote),
                                           cursor_reads(last.out),
                                           Len(last.out)).events} :
               LET retries == SelectSeq(last.events, LAMBDA c : c.call = "retry")
               IN /\ Len(heard_by_peer) = Len(retries)
                  /\ \A k \in 1..Len(retries) :
                         /\ heard_by_peer[k].frame = retries[k].packet
                         /\ heard_by_peer[k].payload = retries[k].data

(***************************************************************************)
(* SpecCongest: a Queue on its own, filled as test_congestion fills it,    *)
(* with packets of BurstLen bytes enqueued a batch at a time, and ticked.  *)
(* Every retry call succeeds and every random draw is 0.                   *)
(***************************************************************************)
MaxCongest == 40
MaxCongestTicks == 2

create_packet_with(prn, data) ==
    [header |-> new_header(prn, <<prn.callsign, ADDRESS_SEPARATOR, prn.callsign>>),
     data |-> data]

\* The batches of test_congestion's enqueue loop: a few packets, or as many
\* as bring the queue just over CONGEST_CONTROL.
BatchSizes == {4, (CONGEST_CONTROL \div BurstLen) + 1}

\* The times a tick is given: half the first delay, and the first delay.
CongestTimes == {RETRY_DELAY_MS \div 2, RETRY_DELAY_MS}

\* Enqueue the packets i, ..., n - 1 of a batch.
RECURSIVE congest_fill(_, _, _, _)
congest_filled(q, prn, sample, i, n) ==
    IF enqueue_fits(q, sample.data)
    THEN congest_fill(queue_enqueue(q, sample.header, sample.data), prn_next(prn),
                      i + 1, n)
    ELSE [queue |-> q, prn |-> prn_next(prn)]

congest_fill(q, prn, i, n) ==
    IF i >= n THEN [queue |-> q, prn |-> prn]
    ELSE congest_filled(q, prn, create_packet_with(prn, Fill(i % 256, BurstLen)), i, n)

\* What the callbacks of a tick were given, without the payload bytes.
CallLog(calls) ==
    [k \in 1..Len(calls) |->
        [call |-> calls[k].call, prn |-> calls[k].packet.prn,
         size |-> Len(calls[k].data)]]

CEnqueue(n) ==
    /\ Len(queue.pending) + n <= MaxCongest
    /\ \E r \in {congest_fill(queue, queue_prn, 0, n)} :
           /\ queue' = r.queue
           /\ queue_prn' = r.prn
    /\ last' = [NoOp EXCEPT !.op = "enqueue", !.read = n]
    /\ UNCHANGED <<nodes, crashed, rx_frame, tx_frame, pos, sent, heard, got, count,
                   track>>

CTick(elapsed_ms) ==
    /\ count.rounds < MaxCongestTicks
    /\ queue.pending # <<>>
    /\ \E r \in {queue_tick(queue, elapsed_ms, [k \in 1..MaxCongest |-> 0], 0)} :
           /\ queue' = r.queue
           /\ last' = [NoOp EXCEPT !.op = "tick", !.events = CallLog(r.calls),
                                   !.input = <<elapsed_ms>>]
    /\ count' = [count EXCEPT !.rounds = @ + 1]
    /\ UNCHANGED <<nodes, crashed, rx_frame, tx_frame, pos, sent, heard, got,
                   queue_prn, track>>

NextCongest ==
    \/ \E n \in BatchSizes : CEnqueue(n)
    \/ \E elapsed_ms \in CongestTimes : CTick(elapsed_ms)

SpecCongest == Init /\ [][NextCongest]_vars

\* The payload bytes the discard calls before call k took out of the queue.
RECURSIVE FreedBefore(_, _)
FreedBefore(calls, k) ==
    IF k <= 1 THEN 0
    ELSE FreedBefore(calls, k - 1)
           + (IF calls[k - 1].call = "discard" THEN calls[k - 1].size ELSE 0)

\* The PRNs of a sequence of pending entries or of logged calls.
PrnsOf(seq) == [k \in 1..Len(seq) |-> IF "packet" \in DOMAIN seq[k]
                                        THEN seq[k].packet.prn ELSE seq[k].prn]

\* C14: a tick retries the due entries that have retries left, in queue
\* order; it discards such an entry, right after its retry, exactly when
\* the payload bytes queued at that moment exceed CONGEST_CONTROL; every
\* discard is of an entry just retried or of one with no retries left; and
\* an entry that is not due stays queued, its delay shortened.
C14_CongestionOverride ==
    [][count'.rounds = count.rounds + 1 =>
          LET calls == last'.events
              elapsed_ms == last'.input[1]
              due(p) == p.next_send <= elapsed_ms
              fresh(p) == due(p) /\ p.retry_count < RETRY_COUNT
              is_retry(c) == c.call = "retry"
          IN /\ PrnsOf(SelectSeq(calls, is_retry)) = PrnsOf(SelectSeq(queue.pending, fresh))
             /\ \A k \in 1..Len(calls) :
                    calls[k].call = "retry" =>
                        ((/\ k < Len(calls)
                          /\ calls[k + 1].call = "discard"
                          /\ calls[k + 1].prn = calls[k].prn)
                           <=> Len(queue.data) - FreedBefore(calls, k) > CONGEST_CONTROL)
             /\ \A k \in 1..Len(calls) :
                    calls[k].call = "discard" =>
                        \/ k > 1 /\ calls[k - 1].call = "retry"
                                 /\ calls[k - 1].prn = calls[k].prn
                        \/ \E i \in 1..Len(queue.pending) :
                               /\ queue.pending[i].packet.prn = calls[k].prn
                               /\ due(queue.pending[i])
                               /\ queue.pending[i].retry_count >= RETRY_COUNT
             /\ \A i \in 1..Len(queue.pending) :
                    ~due(queue.pending[i]) =>
                        /\ \A k \in 1..Len(calls) :
                               calls[k].prn # queue.pending[i].packet.prn
                        /\ \E j \in 1..Len(queue'.pending) :
                               /\ queue'.pending[j].packet = queue.pending[i].packet
                               /\ queue'.pending[j].next_send
                                      = queue.pending[i].next_send - elapsed_ms
                               /\ get_packet_data(queue', queue'.pending[j])
                                      = get_packet_data(queue, queue.pending[i])]_vars

\* test_congestion: one tick of a queue of 40 due packets of 1024 bytes made
\* 40 retry calls and 5 discard calls and left the queue at CONGEST_CONTROL.
C14_FortyRetriesFiveDiscards ==
    /\ last.op = "tick"
    /\ Cardinality({k \in 1..Len(last.events) : last.events[k].call = "retry"}) = 40
    /\ Cardinality({k \in 1..Len(last.events) : last.events[k].call = "discard"}) = 5
    /\ Len(queue.data) = CONGEST_CONTROL
    /\ Len(queue.pending) = 35

(***************************************************************************)
(* SpecBadIo: a Queue on its own whose retry callback returns Err every    *)
(* time, as in test_tick_bad_io.                                           *)
(***************************************************************************)
MaxBadFrames == 2
MaxBadTicks == 6

\* The record kept of a frame: how often retry and discard were called for
\* it.
BadTracked(prn) == [prn |-> prn, retries |-> 0, discards |-> 0]

BadEnqueue ==
    /\ Len(track) < MaxBadFrames
    /\ \E sample \in {create_sample_packet(queue_prn, 1)} :
           /\ enqueue_fits(queue, sample.data)
           /\ queue' = queue_enqueue(queue, sample.header, sample.data)
           /\ track' = Append(track, BadTracked(sample.header.prn))
           /\ last' = [NoOp EXCEPT !.op = "enqueue", !.input = sample.data]
    /\ queue_prn' = prn_next(queue_prn)
    /\ UNCHANGED <<nodes, crashed, rx_frame, tx_frame, pos, sent, heard, got, count>>

\* A tick whose first retry call, if it makes one, returns Err; r01 is the
\* draw of that call.
BadTick(elapsed_ms, r01) ==
    /\ count.rounds < MaxBadTicks
    /\ queue.pending # <<>>
    /\ DueCount(queue, elapsed_ms) = 0 => r01 = 0
    /\ \E r \in {queue_tick(queue, elapsed_ms, [k \in 1..MaxBadFrames |-> r01], 1)} :
           /\ queue' = r.queue
           /\ track' = [i \in 1..Len(track) |->
                           [track[i] EXCEPT
                               !.retries = @ + CallCount(r.calls, "retry", track[i].prn),
                               !.discards = @ + CallCount(r.calls, "discard",
                                                          track[i].prn)]]
           /\ last' = [NoOp EXCEPT !.op = "tick", !.input = <<elapsed_ms>>,
                                   !.events = CallLog(r.calls),
                                   !.result = IF r.err THEN "Io" ELSE "Ok"]
    /\ count' = [count EXCEPT !.rounds = @ + 1]
    /\ UNCHANGED <<nodes, crashed, rx_frame, tx_frame, pos, sent, heard, got,
                   queue_prn>>

NextBadIo ==
    \/ BadEnqueue
    \/ \E elapsed_ms \in TickTimes : \E r01 \in {0, RndSteps} : BadTick(elapsed_ms, r01)

SpecBadIo == Init /\ [][NextBadIo]_vars

\* Does a tick of elapsed_ms get as far as entry i of the queue q: every
\* entry before it is not due or has no retries left.
Reached(q, i, elapsed_ms) ==
    \A j \in 1..(i - 1) :
        q.pending[j].next_send > elapsed_ms \/ q.pending[j].retry_count >= RETRY_COUNT

\* The counting part of C15: a retry call that fails is counted, so that a
\* pending frame has had retry_count calls, a frame has at most RETRY_COUNT
\* of them, and a frame that left the queue has had RETRY_COUNT retry calls
\* and one discard call.
BadIoCounts ==
    \A i \in 1..Len(track) :
        LET at == prn_position(queue, track[i].prn)
        IN /\ track[i].retries <= RETRY_COUNT
           /\ at # 0 => /\ queue.pending[at].retry_count = track[i].retries
                        /\ track[i].discards = 0
           /\ at = 0 => /\ track[i].retries = RETRY_COUNT
                        /\ track[i].discards = 1

\* The tick part of C15: a tick that reaches a due entry with retries left
\* calls retry for it and returns the error; a tick that reaches a due
\* entry with none left discards it.
BadIoTicks ==
    count'.rounds = count.rounds + 1 =>
        \A i \in 1..Len(queue.pending) :
            LET p == queue.pending[i]
                elapsed_ms == last'.input[1]
                calls == last'.events
            IN (p.next_send <= elapsed_ms /\ Reached(queue, i, elapsed_ms)) =>
                   IF p.retry_count < RETRY_COUNT
                   THEN /\ last'.result = "Io"
                        /\ calls[Len(calls)] = [call |-> "retry", prn |-> p.packet.prn,
                                                size |-> p.data_size]
                        /\ prn_position(queue', p.packet.prn) # 0
                   ELSE /\ \E k \in 1..Len(calls) :
                               calls[k] = [call |-> "discard", prn |-> p.packet.prn,
                                           size |-> p.data_size]
                        /\ prn_position(queue', p.packet.prn) = 0

\* C15 as the code has it: failing retry calls are counted (BadIoCounts,
\* BadIoTicks), and a tick returns Ok exactly when it made no retry call:
\* the tick that discards a frame returns Ok unless it goes on to retry
\* another due entry, whose error it then returns.
C15_FailedRetryCounts ==
    /\ []BadIoCounts
    /\ [][BadIoTicks]_vars
    /\ [][count'.rounds = count.rounds + 1 =>
             (last'.result = "Ok"
                <=> \A k \in 1..Len(last'.events) : last'.events[k].call # "retry")]_vars

\* A frame had RETRY_COUNT failing retry calls and the tick that discarded
\* it returned Ok.
C15_DiscardedAfterFailures ==
    /\ last.op = "tick"
    /\ last.result = "Ok"
    /\ \E i \in 1..Len(track) :
           /\ track[i].retries = RETRY_COUNT
           /\ track[i].discards = 1
           /\ last.events = <<[call |-> "discard", prn |-> track[i].prn, size |-> 1]>>

\* C15 as stated: failing retry calls are counted, and the tick that
\* discards the frame returns Ok.
C15_DiscardingTickReturnsOk ==
    /\ []BadIoCounts
    /\ [][BadIoTicks]_vars
    /\ [][count'.rounds = count.rounds + 1 =>
             ((\E k \in 1..Len(last'.events) : last'.events[k].call = "discard")
                 => last'.result = "Ok")]_vars

(***************************************************************************)
(* SpecKiss: kiss::encode and kiss::decode on their own.  rx_frame is a    *)
(* byte sequence drawn at the start; it is encoded as a payload onto the   *)
(* buffer tx_frame, once or back to back, or put there as it is, and       *)
(* decode is applied to the buffer or to a prefix of it, the caller        *)
(* draining bytes_read after a decode of the whole buffer.                 *)
(***************************************************************************)
MaxRawLen == 5
MaxPayloadLen == 2
MaxKissFrames == 2
MaxDecodes == 3

\* The bytes inputs are made of: the delimiter, the escape byte, an escaped
\* delimiter and a byte with no special meaning.
KissBytes == {FEND, FESC, TFEND, 7}

KissInputs == UNION {[1..n -> KissBytes] : n \in 0..MaxRawLen}

KissPorts == 0..15

InitKiss ==
    /\ rx_frame \in KissInputs
    /\ nodes = [n \in Stations |-> node_new(n)]
    /\ crashed = {}
    /\ tx_frame = <<>>
    /\ pos = [n \in Stations |-> 0]
    /\ sent = <<>>
    /\ heard = [n \in Stations |-> EmptyBag]
    /\ got = [n \in Stations |-> EmptyBag]
    /\ last = NoOp
    /\ count = [sends |-> 0, rounds |-> 0, noise |-> 0, pieces |-> 0, acks |-> 0,
                discarded |-> 0]
    /\ queue = queue_new
    /\ queue_prn = prn_new(KI7EST0)
    /\ track = <<>>

\* encode(rx_frame, buffer, port): the frame is appended to the buffer.
KissEncode(port) ==
    /\ Len(rx_frame) <= MaxPayloadLen
    /\ count.sends < MaxKissFrames
    /\ count.noise = 0
    /\ count.pieces = 0
    /\ tx_frame' = tx_frame \o kiss_encode(rx_frame, port)
    /\ track' = Append(track, [payload |-> rx_frame, port |-> port])
    /\ last' = [NoOp EXCEPT !.op = "encode", !.input = rx_frame,
                            !.out = kiss_encode(rx_frame, port), !.held = port]
    /\ count' = [count EXCEPT !.sends = @ + 1]
    /\ UNCHANGED <<nodes, crashed, rx_frame, pos, sent, heard, got, queue, queue_prn>>

\* The bytes drawn are what the buffer holds.
KissRaw ==
    /\ last.op = "none"
    /\ rx_frame # <<>>
    /\ tx_frame' = rx_frame
    /\ last' = [NoOp EXCEPT !.op = "raw", !.out = rx_frame]
    /\ count' = [count EXCEPT !.noise = @ + 1]
    /\ UNCHANGED <<nodes, crashed, rx_frame, pos, sent, heard, got, queue, queue_prn,
                   track>>

\* decode of the first k bytes of the buffer into an empty vector.  last
\* records the input, Some or None, port, bytes_read, payload_size and the
\* decoded bytes.  A decode of the whole buffer that returns Some with a
\* bytes_read the buffer holds is followed by the drain.
KissDecode(k) ==
    /\ count.pieces < MaxDecodes
    /\ k \in 1..Len(tx_frame)
    /\ k < Len(tx_frame) => (count.pieces = 0 /\ count.sends <= 1)
    /\ \E r \in {kiss_decode(Take(tx_frame, k))} :
           /\ last' = [NoOp EXCEPT !.op = "decode", !.input = Take(tx_frame, k),
                                   !.result = IF r.some THEN "Some" ELSE "None",
                                   !.held = r.port, !.read = r.bytes_read,
                                   !.drained = r.payload_size, !.out = r.decoded]
           /\ tx_frame' = IF k = Len(tx_frame) /\ r.some /\ r.bytes_read <= k
                          THEN Drop(tx_frame, r.bytes_read) ELSE tx_frame
           /\ count' = [count EXCEPT
                           !.pieces = @ + 1,
                           !.acks = IF k = Len(tx_frame) THEN @ + 1 ELSE @]
    /\ UNCHANGED <<nodes, crashed, rx_frame, pos, sent, heard, got, queue, queue_prn,
                   track>>

NextKiss ==
    \/ \E port \in KissPorts : KissEncode(port)
    \/ KissRaw
    \/ \E k \in 1..(MaxKissFrames * (2 * MaxPayloadLen + 3) + MaxRawLen) : KissDecode(k)

SpecKiss == InitKiss /\ [][NextKiss]_vars

\* C16: decode of encode(p, port) returns a frame with that port, the
\* payload p, payload_size the length of p and bytes_read the length of the
\* encoded bytes, for every p and every port of 0..15.
C16_KissRoundTrip ==
    (/\ last.op = "decode"
     /\ Len(track) = 1
     /\ last.input = kiss_encode(track[1].payload, track[1].port))
        => /\ last.result = "Some"
           /\ last.held = track[1].port
           /\ last.out = track[1].payload
           /\ last.drained = Len(track[1].payload)
           /\ last.read = Len(last.input)

\* The same for the ports whose command byte is not FEND.
KissRoundTripOtherPorts ==
    (/\ last.op = "decode"
     /\ Len(track) = 1
     /\ CMD_DATA + track[1].port * 16 # FEND
     /\ last.input = kiss_encode(track[1].payload, track[1].port))
        => /\ last.result = "Some"
           /\ last.held = track[1].port
           /\ last.out = track[1].payload
           /\ last.drained = Len(track[1].payload)
           /\ last.read = Len(last.input)

\* The 1-based place of the closing FEND of the first complete frame of
\* bytes: an opening FEND, at least one byte that is no FEND, a FEND.  0
\* when there is none.
ClosingFend(bytes) ==
    LET ends == {j \in 1..Len(bytes) :
                    /\ bytes[j] = FEND
                    /\ j > 2
                    /\ bytes[j - 1] # FEND
                    /\ \E i \in 1..(j - 2) :
                           /\ bytes[i] = FEND
                           /\ \A m \in (i + 1)..(j - 1) : bytes[m] # FEND}
    IN IF ends = {} THEN 0 ELSE CHOOSE j \in ends : \A m \in ends : j <= m

\* C17: decode returns None when its input holds no complete frame, as for
\* every proper prefix of an encoded frame.
C17_NoneWithoutClosingFend ==
    (last.op = "decode" /\ ClosingFend(last.input) = 0) => last.result = "None"

\* The frames before the n-th of the frames encoded, as bytes.
RECURSIVE FramesBefore(_)
FramesBefore(n) ==
    IF n <= 1 THEN <<>>
    ELSE FramesBefore(n - 1) \o kiss_encode(track[n - 1].payload, track[n - 1].port)

\* C18: for an input that holds a complete frame, decode returns bytes_read
\* equal to the index of the closing FEND of the first one plus one; and
\* the n-th decode-and-drain of a buffer of frames encoded back to back
\* returns the payload of the n-th frame.
C18_BytesReadExact ==
    last.op = "decode" =>
        /\ ClosingFend(last.input) # 0 =>
               (last.result = "Some" /\ last.read = ClosingFend(last.input))
        /\ (/\ track # <<>>
            /\ count.acks = count.pieces
            /\ count.acks <= Len(track)
            /\ FramesBefore(count.acks) \o last.input = FramesBefore(Len(track) + 1))
               => (last.result = "Some" /\ last.out = track[count.acks].payload)

\* bytes_read is exact for inputs that hold a complete frame and no FESC.
BytesReadExactWithoutEscapes ==
    (/\ last.op = "decode"
     /\ track = <<>>
     /\ ClosingFend(last.input) # 0
     /\ \A i \in 1..Len(last.input) : last.input[i] # FESC)
        => (last.result = "Some" /\ last.read = ClosingFend(last.input))

\* Frames encoded back to back come out one per decode-and-drain, in order,
\* when the command byte of none of them is FEND.
BackToBackOtherPorts ==
    (/\ last.op = "decode"
     /\ track # <<>>
     /\ \A i \in 1..Len(track) : CMD_DATA + track[i].port * 16 # FEND
     /\ count.acks = count.pieces
     /\ count.acks <= Len(track)
     /\ FramesBefore(count.acks) \o last.input = FramesBefore(Len(track) + 1))
        => /\ last.result = "Some"
           /\ last.out = track[count.acks].payload
           /\ last.read = Len(kiss_encode(track[count.acks].payload,
                                          track[count.acks].port))

(***************************************************************************)
(* SpecFrame: frame::to_bytes and frame::from_bytes on their own.  A route *)
(* and a payload are drawn at the start; new_header and to_bytes write the *)
(* frame to tx_frame, one bit of it may be inverted, and from_bytes reads  *)
(* tx_frame with size the number of bytes it holds.                        *)
(***************************************************************************)
HeadBytes == 20
FullFlipLen == 80

\* address::encode of the callsign 1000000: symbol 1 in the least
\* significant place, every other symbol 0.
ADDR_1000000 == <<0, 0, 0, 1>>

\* The routes handed to new_header: a destination and the origin, a relay
\* chain, no return path, the route of a station whose address has one bit
\* set, and the longest route (fifteen forward words, the separator, the
\* origin).
FrameRoutes ==
    {<<TEST000, ADDRESS_SEPARATOR, KI7EST0>>,
     <<TEST000, TEST010, ADDRESS_SEPARATOR, TEST020, KI7EST0>>,
     <<TEST000, ADDRESS_SEPARATOR>>,
     <<ADDR_1000000, ADDRESS_SEPARATOR, KI7EST0>>,
     <<TEST000, ADDRESS_SEPARATOR, ADDR_1000000>>,
     Fill(TEST010, MAX_LENGTH - 2) \o <<ADDRESS_SEPARATOR, KI7EST0>>}

FramePayloads == {<<>>, <<7>>, <<FEND, 0>>}

\* The frames drawn: every route with every short payload, and the largest
\* payload on the routes with a one-bit address.
FrameInputs ==
    {[route |-> r, payload |-> p] : r \in FrameRoutes, p \in FramePayloads}
        \cup {[route |-> <<ADDR_1000000, ADDRESS_SEPARATOR, KI7EST0>>,
               payload |-> Fill(7, MTU)]}

InitFrame ==
    /\ track \in {<<f>> : f \in FrameInputs}
    /\ nodes = [n \in Stations |-> node_new(n)]
    /\ crashed = {}
    /\ rx_frame = <<>>
    /\ tx_frame = <<>>
    /\ pos = [n \in Stations |-> 0]
    /\ sent = <<>>
    /\ heard = [n \in Stations |-> EmptyBag]
    /\ got = [n \in Stations |-> EmptyBag]
    /\ last = NoOp
    /\ count = [sends |-> 0, rounds |-> 0, noise |-> 0, pieces |-> 0, acks |-> 0,
                discarded |-> 0]
    /\ queue = queue_new
    /\ queue_prn = prn_new(KI7EST0)

\* new_header(&mut prn, &route) and to_bytes(&mut data, &frame, payload).
FrameWrite ==
    /\ last.op = "none"
    /\ new_header_error(track[1].route) = "Ok"
    /\ \E bytes \in {to_bytes(new_header(queue_prn, track[1].route), track[1].payload)} :
           /\ tx_frame' = bytes
           /\ last' = [NoOp EXCEPT !.op = "to_bytes", !.writes = Len(bytes)]
    /\ sent' = <<new_header(queue_prn, track[1].route)>>
    /\ queue_prn' = prn_next(queue_prn)
    /\ count' = [count EXCEPT !.sends = @ + 1]
    /\ UNCHANGED <<nodes, crashed, rx_frame, pos, heard, got, queue, track>>

\* byte with bit number bit inverted (corrupted ^= 1 << bit).
flip_bit(byte, bit) ==
    IF (byte \div (2 ^ bit)) % 2 = 1 THEN byte - 2 ^ bit ELSE byte + 2 ^ bit

\* One bit of the written frame is inverted: any bit of a frame of up to
\* FullFlipLen bytes, a bit of the first HeadBytes bytes of a longer one.
FrameFlip(at, bit) ==
    /\ last.op = "to_bytes"
    /\ at \in 1..Len(tx_frame)
    /\ at <= HeadBytes \/ Len(tx_frame) <= FullFlipLen
    /\ tx_frame' = [tx_frame EXCEPT ![at] = flip_bit(@, bit)]
    /\ last' = [NoOp EXCEPT !.op = "flip", !.held = at, !.read = bit]
    /\ count' = [count EXCEPT !.noise = @ + 1]
    /\ UNCHANGED <<nodes, crashed, rx_frame, pos, sent, heard, got, queue, queue_prn,
                   track>>

\* from_bytes(&mut Cursor::new(tx_frame), &mut payload, tx_frame.len()) with
\* a payload buffer of MTU bytes.  last records the outcome, the frame and
\* the payload read.
FrameRead ==
    /\ last.op \in {"to_bytes", "flip"}
    /\ \E r \in {from_bytes(tx_frame, Len(tx_frame))} :
           last' = [NoOp EXCEPT !.op = "from_bytes", !.result = r.tag,
                                !.events = <<r.frame>>, !.out = r.payload,
                                !.held = last.held, !.read = last.read]
    /\ count' = [count EXCEPT !.pieces = @ + 1]
    /\ UNCHANGED <<nodes, crashed, rx_frame, tx_frame, pos, sent, heard, got, queue,
                   queue_prn, track>>

NextFrame ==
    \/ FrameWrite
    \/ \E at \in 1..FullFlipLen : \E bit \in 0..7 : FrameFlip(at, bit)
    \/ FrameRead

SpecFrame == InitFrame /\ [][NextFrame]_vars

FrameLongestRouteReadBack ==
    /\ last.op = "from_bytes"
    /\ count.noise = 0
    /\ last.result = "Ok"
    /\ Len(track[1].route) = MAX_LENGTH
    /\ last.events[1].address_route = track[1].route

\* C20: after any one bit of a serialized frame is inverted, from_bytes
\* returns an error and no frame: CRCFailure, BadAddress, or that the
\* frame is truncated (ReadError::Truncated, or the ReadError::IO it
\* returns for an input that ends before its header or its CRC does).
C20_BitFlipDetected ==
    (last.op = "from_bytes" /\ count.noise = 1)
        => last.result \in {"CRCFailure", "Truncated", "BadAddress", "IO"}

\* With one bit inverted from_bytes never returns a frame.
BitFlipNeverAccepted ==
    (last.op = "from_bytes" /\ count.noise = 1) => last.result # "Ok"

\* With one bit inverted the error is never ReadError::IO.
BitFlipNeverIo ==
    (last.op = "from_bytes" /\ count.noise = 1) => last.result # "IO"

\* With one bit inverted from_bytes never fails with Truncated or
\* BadAddress.
BitFlipNeverTruncated ==
    (last.op = "from_bytes" /\ count.noise = 1)
        => last.result \notin {"Truncated", "BadAddress"}

(***************************************************************************)
(* SpecRoute: routing::advance and routing::reverse on their own.  A route *)
(* is drawn at the start and held in track; advance (with the address of   *)
(* the station that forwards) and reverse are applied to it in turn.       *)
(***************************************************************************)
MaxSegment == 2
MaxRouteOps == 3

RouteAddrs == {TEST000, TEST010}

\* The non-empty segments of up to MaxSegment addresses.
RouteSegments == UNION {[1..n -> RouteAddrs] : n \in 1..MaxSegment}

\* The routes drawn: forward . [SEP] . return; the longest route of
\* test_routing (fifteen forward words, the separator, the origin); a route
\* that starts with the separator; a route of 17 words and no separator.
RouteInputs ==
    {gen_route(f \o <<ADDRESS_SEPARATOR>> \o r) : f \in RouteSegments, r \in RouteSegments}
        \cup {gen_route(Fill(TEST020, MAX_LENGTH - 2) \o <<ADDRESS_SEPARATOR, KI7EST0>>),
              gen_route(<<ADDRESS_SEPARATOR, KI7EST0>>),
              Fill(TEST020, MAX_LENGTH)}

InitRoute ==
    /\ track \in {<<r>> : r \in RouteInputs}
    /\ nodes = [n \in Stations |-> node_new(n)]
    /\ crashed = {}
    /\ rx_frame = <<>>
    /\ tx_frame = <<>>
    /\ pos = [n \in Stations |-> 0]
    /\ sent = <<>>
    /\ heard = [n \in Stations |-> EmptyBag]
    /\ got = [n \in Stations |-> EmptyBag]
    /\ last = NoOp
    /\ count = [sends |-> 0, rounds |-> 0, noise |-> 0, pieces |-> 0, acks |-> 0,
                discarded |-> 0]
    /\ queue = queue_new
    /\ queue_prn = prn_new(KI7EST0)

\* route = advance(&route, this_addr): Ok with the new route, or BadFormat
\* and the route as it was.
RouteAdvance(this_addr) ==
    /\ count.rounds < MaxRouteOps
    /\ track' = <<IF advance_ok(track[1]) THEN advance(track[1], this_addr)
                  ELSE track[1]>>
    /\ last' = [NoOp EXCEPT !.op = "advance", !.node = this_addr,
                            !.input = track[1],
                            !.result = IF advance_ok(track[1]) THEN "Ok" ELSE "BadFormat",
                            !.out = track'[1]]
    /\ count' = [count EXCEPT !.rounds = @ + 1, !.sends = @ + 1]
    /\ UNCHANGED <<nodes, crashed, rx_frame, tx_frame, pos, sent, heard, got, queue,
                   queue_prn>>

\* route = reverse(&route)
RouteReverse ==
    /\ count.rounds < MaxRouteOps
    /\ track' = <<reverse(track[1])>>
    /\ last' = [NoOp EXCEPT !.op = "reverse", !.input = track[1],
                            !.out = reverse(track[1]),
                            !.events = <<reverse(reverse(track[1]))>>]
    /\ count' = [count EXCEPT !.rounds = @ + 1, !.acks = @ + 1]
    /\ UNCHANGED <<nodes, crashed, rx_frame, tx_frame, pos, sent, heard, got, queue,
                   queue_prn>>

\* The loop of test_routing: route = advance(&route, this_addr) again and
\* again, here until advance fails; n counts the calls that succeeded.
RECURSIVE advance_run(_, _, _)
advance_run(route, this_addr, n) ==
    IF ~advance_ok(route) THEN [route |-> route, hops |-> n]
    ELSE advance_run(advance(route, this_addr), this_addr, n + 1)

RouteRun(this_addr) ==
    /\ count.rounds < MaxRouteOps
    /\ \E r \in {advance_run(track[1], this_addr, 0)} :
           /\ track' = <<r.route>>
           /\ last' = [NoOp EXCEPT !.op = "run", !.node = this_addr,
                                   !.input = track[1], !.result = "BadFormat",
                                   !.out = r.route, !.read = r.hops]
    /\ count' = [count EXCEPT !.rounds = @ + 1]
    /\ UNCHANGED <<nodes, crashed, rx_frame, tx_frame, pos, sent, heard, got, queue,
                   queue_prn>>

\* The station this_addr dispatches a parsed data frame that carries the
\* route, on a transport that accepts the write.
RouteDispatch(this_addr) ==
    /\ count.rounds < MaxRouteOps
    /\ \E d \in {dispatch_recv(nodes[this_addr],
                                [prn |-> prn_current(prn_new(TEST020)),
                                 address_route |-> track[1]],
                                <<1>>, TRUE)} :
           /\ nodes' = [nodes EXCEPT ![this_addr] = d.node]
           /\ last' = [NoOp EXCEPT !.op = "dispatch", !.node = this_addr,
                                   !.input = track[1], !.result = d.event.result,
                                   !.out = d.out, !.events = <<d.event>>]
    /\ count' = [count EXCEPT !.rounds = @ + 1]
    /\ UNCHANGED <<crashed, rx_frame, tx_frame, pos, sent, heard, got, queue,
                   queue_prn, track>>

NextRoute ==
    \/ \E this_addr \in {KI7EST0, TEST000} : RouteAdvance(this_addr)
    \/ RouteReverse
    \/ RouteRun(KI7EST0)
    \/ \E this_addr \in {KI7EST0, TEST000} : RouteDispatch(this_addr)

SpecRoute == InitRoute /\ [][NextRoute]_vars

\* The words of a route before its first separator.
ForwardPath(route) == Take(route, sep_position(route))

\* The words of a route after its first separator, up to the next
\* separator or the end of the route.
ReturnPath(route) ==
    LET from == sep_position(route) + 2
        stop == {i \in from..Len(route) : route[i] = ADDRESS_SEPARATOR}
        to == IF stop = {} THEN Len(route)
              ELSE (CHOOSE i \in stop : \A j \in stop : i <= j) - 1
    IN SubSeq(route, from, to)

\* C21: after a successful advance(r, self) the separator is one index
\* further right than in r, and self is the last entry of the return path,
\* after the entries the return path had.
C21_AdvanceAppendsToReturnPath ==
    (last.op = "advance" /\ last.result = "Ok")
        => /\ sep_position(last.out) = sep_position(last.input) + 1
           /\ ReturnPath(last.out) = ReturnPath(last.input) \o <<last.node>>

\* What advance does: the first forward word is dropped, the separator is
\* one index further left, and self is the first entry of the return path,
\* before the entries the return path had.
AdvancePrependsToReturnPath ==
    (last.op = "advance" /\ last.result = "Ok")
        => /\ sep_position(last.out) = sep_position(last.input) - 1
           /\ ForwardPath(last.out) = Drop(ForwardPath(last.input), 1)
           /\ ReturnPath(last.out) = <<last.node>> \o ReturnPath(last.input)

\* advance has succeeded on a route with a return path of two entries.
AdvancedWithReturnPath ==
    /\ last.op = "advance"
    /\ last.result = "Ok"
    /\ Len(ReturnPath(last.input)) = 2
    /\ last.node \notin {last.input[i] : i \in 1..MAX_LENGTH}

\* s read backwards.
Backwards(s) == [i \in 1..Len(s) |-> s[Len(s) + 1 - i]]

\* Is the route forward . [SEP] . return, with neither segment empty and
\* nothing but separators after the return segment?
TwoSegments(route) ==
    /\ sep_position(route) >= 1
    /\ ReturnPath(route) # <<>>
    /\ \A i \in 1..Len(route) :
           i > sep_position(route) + 1 + Len(ReturnPath(route))
               => route[i] = ADDRESS_SEPARATOR

\* C22: for a route forward . [SEP] . return with non-empty segments,
\* reverse gives reverse(return) . [SEP] . reverse(forward) padded with
\* separators to 17 words, and reverse of that is the route again.
C22_ReverseSwapsSegments ==
    (last.op = "reverse" /\ TwoSegments(last.input))
        => /\ last.out = gen_route(Backwards(ReturnPath(last.input))
                                     \o <<ADDRESS_SEPARATOR>>
                                     \o Backwards(ForwardPath(last.input)))
           /\ Len(last.out) = MAX_LENGTH
           /\ last.events = <<last.input>>

\* reverse has been applied, after an advance, to a route of one forward
\* and three return words whose return path reads differently backwards.
C22_ReversedAfterAdvance ==
    /\ last.op = "reverse"
    /\ TwoSegments(last.input)
    /\ count.sends >= 1
    /\ Len(ForwardPath(last.input)) = 1
    /\ Len(ReturnPath(last.input)) = 3
    /\ ForwardPath(last.out) # ReturnPath(last.input)

\* reverse has been applied to the longest route.
ReversedLongestRoute ==
    /\ last.op = "reverse"
    /\ TwoSegments(last.input)
    /\ Len(ForwardPath(last.input)) = MAX_LENGTH - 2

(***************************************************************************)
(* SpecTable: the seen-PRN ring on its own, as test_contains and           *)
(* test_last_1000 drive it.  The ring is the recv_prn_table of the station *)
(* TableHost, queue_prn is the generator the added values come from, and   *)
(* track holds the value whose membership is followed; count.acks is the   *)
(* number of adds since that value was last added.                         *)
(***************************************************************************)
MaxTableOps == 5
FillChunk == 40

TableHost == StationOrder[1]

\* for _ in 0..n { table.add(prn.next()) } for n of at most FillChunk.
\* (The tests of last_idx and of the width of current never hold; they
\* make the evaluation of table and prn happen at every step.)
RECURSIVE table_fill_chunk(_, _, _)
table_fill_chunk(table, prn, n) ==
    IF n = 0 \/ table.last_idx >= TABLE_SIZE \/ Len(prn.current) # 4
    THEN [table |-> table, prn |-> prn]
    ELSE table_fill_chunk(table_add(table, prn_current(prn_next(prn))),
                          prn_next(prn), n - 1)

\* for _ in 0..n { table.add(prn.next()) }
RECURSIVE table_fill(_, _)
table_fill(st, n) ==
    IF n = 0 THEN st
    ELSE IF st.table.last_idx >= TABLE_SIZE THEN st
    ELSE LET k == IF n > FillChunk THEN FillChunk ELSE n
         IN table_fill(table_fill_chunk(st.table, st.prn, k), n - k)

\* let first_prn = prn.next(); table.add(first_prn)
TableWatch ==
    /\ count.rounds < MaxTableOps
    /\ nodes' = [nodes EXCEPT ![TableHost].recv_prn_table =
                                  table_add(@, prn_current(prn_next(queue_prn)))]
    /\ queue_prn' = prn_next(queue_prn)
    /\ track' = <<prn_current(prn_next(queue_prn))>>
    /\ last' = [NoOp EXCEPT !.op = "add", !.input = prn_current(prn_next(queue_prn))]
    /\ count' = [count EXCEPT !.rounds = @ + 1, !.sends = @ + 1, !.acks = 0]
    /\ UNCHANGED <<crashed, rx_frame, tx_frame, pos, sent, heard, got, queue>>

\* The followed value is added once more.
TableAddAgain ==
    /\ count.rounds < MaxTableOps
    /\ track # <<>>
    /\ nodes' = [nodes EXCEPT ![TableHost].recv_prn_table = table_add(@, track[1])]
    /\ last' = [NoOp EXCEPT !.op = "add", !.input = track[1]]
    /\ count' = [count EXCEPT !.rounds = @ + 1, !.sends = @ + 1, !.acks = 0]
    /\ UNCHANGED <<crashed, rx_frame, tx_frame, pos, sent, heard, got, queue,
                   queue_prn, track>>

\* n further values of the generator are added.
TableFill(n) ==
    /\ count.rounds < MaxTableOps
    /\ track # <<>>
    /\ \E r \in {table_fill([table |-> nodes[TableHost].recv_prn_table,
                             prn |-> queue_prn], n)} :
           /\ nodes' = [nodes EXCEPT ![TableHost].recv_prn_table = r.table]
           /\ queue_prn' = r.prn
    /\ last' = [NoOp EXCEPT !.op = "fill", !.held = n]
    /\ count' = [count EXCEPT !.rounds = @ + 1, !.sends = @ + n, !.acks = @ + n]
    /\ UNCHANGED <<crashed, rx_frame, tx_frame, pos, sent, heard, got, queue, track>>

NextTable ==
    \/ TableWatch
    \/ TableAddAgain
    \/ \E n \in {1, TABLE_SIZE - 1} : TableFill(n)

SpecTable == Init /\ [][NextTable]_vars

\* C23: a value that was added is contained in the ring while fewer than
\* TABLE_SIZE further values have been added, and is not contained once
\* TABLE_SIZE further values, all different from it, have been added.
C23_RingHoldsLastThousand ==
    track # <<>>
        => (table_contains(nodes[TableHost].recv_prn_table, track[1])
                <=> count.acks < TABLE_SIZE)

\* The followed value has been overwritten by the TABLE_SIZE-th further add.
C23_OverwrittenAfterThousand ==
    /\ track # <<>>
    /\ count.acks = TABLE_SIZE
    /\ last.op = "fill"
    /\ last.held = 1
    /\ ~table_contains(nodes[TableHost].recv_prn_table, track[1])

\* The followed value is still held after TABLE_SIZE - 1 further adds into
\* a ring that has wrapped around.
HeldAfterWrap ==
    /\ track # <<>>
    /\ count.acks = TABLE_SIZE - 1
    /\ count.sends > TABLE_SIZE
    /\ table_contains(nodes[TableHost].recv_prn_table, track[1])

(***************************************************************************)
(* SpecPrn: the packet IDs a station generates, and what a station with a  *)
(* freshly constructed ring does with a data frame that carries one.       *)
(* queue_prn is the generator, constructed from a callsign drawn at the    *)
(* start; the frame goes from that callsign to PrnPeer.                    *)
(***************************************************************************)
MaxNext == 30

\* address::encode of the callsign JZ0KIZ0: 0x7FFFFFFF.
ADDR_JZ0KIZ0 == <<127, 255, 255, 255>>

PrnCallsigns == {KI7EST0, TEST010, TEST020, ADDR_1000000, ADDR_JZ0KIZ0}

PrnPeer == TEST000

InitPrn ==
    /\ queue_prn \in {prn_new(c) : c \in PrnCallsigns}
    /\ nodes = [n \in Stations |-> node_new(n)]
    /\ crashed = {}
    /\ rx_frame = <<>>
    /\ tx_frame = <<>>
    /\ pos = [n \in Stations |-> 0]
    /\ sent = <<>>
    /\ heard = [n \in Stations |-> EmptyBag]
    /\ got = [n \in Stations |-> EmptyBag]
    /\ last = NoOp
    /\ count = [sends |-> 0, rounds |-> 0, noise |-> 0, pieces |-> 0, acks |-> 0,
                discarded |-> 0]
    /\ queue = queue_new
    /\ track = <<>>

\* prn.next()
PrnNext ==
    /\ count.sends < MaxNext
    /\ queue_prn' = prn_next(queue_prn)
    /\ last' = [NoOp EXCEPT !.op = "next", !.out = prn_current(prn_next(queue_prn))]
    /\ count' = [count EXCEPT !.sends = @ + 1]
    /\ UNCHANGED <<nodes, crashed, rx_frame, tx_frame, pos, sent, heard, got, queue,
                   track>>

\* dispatch_recv at PrnPeer, whose ring is as new() left it, of a data
\* frame to PrnPeer with the packet ID next() just returned.
PrnDispatch ==
    /\ last.op = "next"
    /\ \E d \in {dispatch_recv(node_new(PrnPeer),
                               [prn |-> prn_current(queue_prn),
                                address_route |->
                                    gen_route(<<PrnPeer, ADDRESS_SEPARATOR,
                                                queue_prn.callsign>>)],
                               <<7>>, TRUE)} :
           last' = [NoOp EXCEPT !.op = "dispatch", !.node = PrnPeer,
                                !.events = <<d.event>>, !.out = d.out]
    /\ count' = [count EXCEPT !.pieces = @ + 1]
    /\ UNCHANGED <<nodes, crashed, rx_frame, tx_frame, pos, sent, heard, got, queue,
                   queue_prn, track>>

NextPrn ==
    \/ PrnNext
    \/ PrnDispatch

SpecPrn == InitPrn /\ [][NextPrn]_vars

\* C24: next() never returns 0, whatever the callsign, so a station whose
\* ring is freshly constructed takes no packet ID for already seen and
\* hands every first-time data frame to recv_cb.
C24_PacketIdNeverZero ==
    /\ last.op = "next" => last.out # <<0, 0, 0, 0>>
    /\ last.op = "dispatch" => (~last.events[1].seen /\ last.events[1].recv)

\* The LFSR state itself is never 0.
LfsrStateNeverZero == queue_prn.current # <<0, 0, 0, 0>>

\* A freshly constructed ring takes every packet ID other than 0 for new.
NonZeroIdsAreNew ==
    (last.op = "dispatch" /\ last.events[1].frame.prn # <<0, 0, 0, 0>>)
        => (~last.events[1].seen /\ last.events[1].recv)

(***************************************************************************)
(* SpecPending: a Queue driven by enqueue, ack_recv and tick in any order, *)
(* as in test_discard_mixed and test_multi_ack.  Payloads are of zero or   *)
(* more bytes, each frame with bytes of its own; a frame may carry the     *)
(* packet ID of the first one again.  track holds, per frame enqueued, its *)
(* packet ID and bytes, whether it is pending, acked, expired or was       *)
(* refused, how often it has left the queue, how often it was retried, and *)
(* the callbacks made for it after it had left.                            *)
(***************************************************************************)
MaxPending == 3
MaxPendingOps == 7

PendingSizes == {0, 2}

\* The times a tick is given: none, the first delay, and the longest a
\* retry can be delayed.
PendingTimes == {0, RETRY_DELAY_MS, RETRY_DELAY_MS * (1 + RETRY_COUNT)}

\* The draws of one tick: the same end of [0, 1] for each of its retries.
PendingDraws == {[k \in 1..(MaxPending + 1) |-> r] : r \in {0, RndSteps}}

\* A packet ID no frame carries.
UnknownPrn == <<1, 2, 3, 4>>

PendingTracked(header, data, queued) ==
    [prn |-> header.prn, header |-> header, data |-> data,
     state |-> IF queued THEN "pending" ELSE "refused",
     left |-> 0, retries |-> 0, late |-> 0]

\* The place in track of the first pending frame with this packet ID, or 0.
FirstPending(prn) ==
    IF \E i \in 1..Len(track) : track[i].state = "pending" /\ track[i].prn = prn
    THEN CHOOSE i \in 1..Len(track) :
             /\ track[i].state = "pending" /\ track[i].prn = prn
             /\ \A j \in 1..(i - 1) : ~(track[j].state = "pending" /\ track[j].prn = prn)
    ELSE 0

\* How many of the calls are of one kind and for one frame.
CallsFor(calls, kind, t) ==
    Cardinality({k \in 1..Len(calls) :
                    /\ calls[k].call = kind
                    /\ calls[k].packet.prn = t.prn
                    /\ calls[k].data = t.data})

\* track after a tick that made the calls.
PendingTicked(calls) ==
    [i \in 1..Len(track) |->
        IF track[i].state = "pending"
        THEN [track[i] EXCEPT
                 !.retries = @ + CallsFor(calls, "retry", track[i]),
                 !.left = @ + CallsFor(calls, "discard", track[i]),
                 !.state = IF CallsFor(calls, "discard", track[i]) > 0
                           THEN "expired" ELSE @]
        ELSE [track[i] EXCEPT
                 !.late = @ + CallsFor(calls, "retry", track[i])
                            + CallsFor(calls, "discard", track[i])]]

\* queue.enqueue(header, data) of a frame of size bytes; again: the header
\* is that of the first frame once more.
PEnqueue(size, again) ==
    /\ Len(track) < MaxPending
    /\ count.rounds < MaxPendingOps
    /\ again => (Len(track) = 1 /\ size > 0)
    /\ \E sample \in {create_packet_with(queue_prn, Fill(Len(track) + 1, size))} :
       \E header \in {IF again THEN track[1].header ELSE sample.header} :
           /\ queue_prn' = IF again THEN queue_prn ELSE prn_next(queue_prn)
           /\ queue' = IF enqueue_fits(queue, sample.data)
                       THEN queue_enqueue(queue, header, sample.data)
                       ELSE queue
           /\ last' = [NoOp EXCEPT !.op = "enqueue", !.input = sample.data,
                                   !.result = IF enqueue_fits(queue, sample.data)
                                              THEN "Ok" ELSE "Discarded"]
           /\ track' = Append(track, PendingTracked(header, sample.data,
                                                    enqueue_fits(queue, sample.data)))
    /\ count' = [count EXCEPT !.rounds = @ + 1]
    /\ UNCHANGED <<nodes, crashed, rx_frame, tx_frame, pos, sent, heard, got>>

\* queue.ack_recv(prn) with the packet ID of frame i, or for i = 0 with
\* one that no frame carries.  last records the packet ID, the returned bool and
\* the place in track of the first pending frame with that ID.
PAck(i) ==
    /\ count.rounds < MaxPendingOps
    /\ i <= Len(track)
    /\ \E prn \in {IF i = 0 THEN UnknownPrn ELSE track[i].prn} :
       \E r \in {queue_ack_recv(queue, prn)} :
           /\ queue' = r.queue
           /\ last' = [NoOp EXCEPT !.op = "ack", !.input = prn,
                                   !.result = IF r.found THEN "true" ELSE "false",
                                   !.held = FirstPending(prn)]
           /\ track' = IF r.found /\ FirstPending(prn) # 0
                       THEN [track EXCEPT ![FirstPending(prn)].state = "acked",
                                          ![FirstPending(prn)].left = @ + 1]
                       ELSE track
    /\ count' = [count EXCEPT !.rounds = @ + 1]
    /\ UNCHANGED <<nodes, crashed, rx_frame, tx_frame, pos, sent, heard, got,
                   queue_prn>>

\* queue.tick(elapsed_ms, retry, discard); the retry callback fails on its
\* call number fail_at.  last records elapsed_ms, the draw, fail_at and
\* the result.
PTick(elapsed_ms, rnd, fail_at) ==
    /\ count.rounds < MaxPendingOps
    /\ DueCount(queue, elapsed_ms) = 0 => (rnd[1] = 0 /\ fail_at = 0)
    /\ \E r \in {queue_tick(queue, elapsed_ms, rnd, fail_at)} :
           /\ fail_at # 0 => r.err
           /\ queue' = r.queue
           /\ track' = PendingTicked(r.calls)
           /\ last' = [NoOp EXCEPT !.op = "tick", !.held = elapsed_ms,
                                   !.read = rnd[1], !.writes = fail_at,
                                   !.result = IF r.err THEN "Io" ELSE "Ok"]
    /\ count' = [count EXCEPT !.rounds = @ + 1]
    /\ UNCHANGED <<nodes, crashed, rx_frame, tx_frame, pos, sent, heard, got,
                   queue_prn>>

NextPending ==
    \/ \E size \in PendingSizes : \E again \in BOOLEAN : PEnqueue(size, again)
    \/ \E i \in 0..MaxPending : PAck(i)
    \/ \E elapsed_ms \in PendingTimes : \E rnd \in PendingDraws :
           \E fail_at \in {0, 1} : PTick(elapsed_ms, rnd, fail_at)

SpecPending == Init /\ [][NextPending]_vars

\* The calls to retry and discard that the tick of this step makes.
TickCalls ==
    queue_tick(queue, last'.held, [k \in 1..(MaxPending + 1) |-> last'.read],
               last'.writes).calls

\* C25: a tick with elapsed_ms = 0 calls neither retry nor discard and
\* leaves the queue (every entry's next_send and retry_count, and the
\* payload vector) as it was; every pending entry has next_send >= 1.
C25_ZeroTickStopsClock ==
    /\ [](\A i \in 1..Len(queue.pending) : queue.pending[i].next_send >= 1)
    /\ [][(count'.rounds = count.rounds + 1 /\ last'.op = "tick" /\ last'.held = 0)
             => (/\ TickCalls = <<>>
                 /\ last'.result = "Ok"
                 /\ queue' = queue)]_vars

\* A tick of no time has been given to a queue that holds an entry already
\* retried and an entry not yet retried.
C25_ZeroTickOnRetriedEntry ==
    /\ last.op = "tick"
    /\ last.held = 0
    /\ \E i \in 1..Len(queue.pending) : queue.pending[i].retry_count >= 1
    /\ \E i \in 1..Len(queue.pending) : queue.pending[i].retry_count = 0

(***************************************************************************)
(* SpecFlight: one station whose client sends many small payloads, one at  *)
(* a time or in a batch, while the peer acknowledges the oldest pending    *)
(* frame and the host ticks.  Every write succeeds.                        *)
(***************************************************************************)
MaxFlightOps == 4
FlightChunk == 8
MaxTicked == 40

FlightLocal == StationOrder[1]
FlightRemote == StationOrder[2]

\* The sends of one step: one, or somewhat more than half of MAX_PACKET.
FlightBatches == {1, (MAX_PACKET \div 2) + 1}

\* n calls of send with a payload of one byte, for n of at most
\* FlightChunk, stopping at the first that is not Ok.
RECURSIVE send_chunk(_, _)
send_chunk_step(r, n) == IF r.result = "Ok" THEN send_chunk(r.node, n - 1) ELSE r.node

send_chunk(node, n) ==
    IF n = 0 THEN node
    ELSE send_chunk_step(node_send(node, <<n % 256>>, <<FlightRemote>>, TRUE), n)

\* n calls of send with a payload of one byte.  (No send of these is
\* refused: the queue holds fewer than BLOCK_SIZE bytes.)
RECURSIVE send_many(_, _)
send_many(node, n) ==
    IF n = 0 \/ Len(node.tx_queue.data) >= BLOCK_SIZE THEN node
    ELSE LET k == IF n > FlightChunk THEN FlightChunk ELSE n
         IN send_many(send_chunk(node, k), n - k)

FlightSend(n) ==
    /\ count.rounds < MaxFlightOps
    /\ nodes' = [nodes EXCEPT ![FlightLocal] = send_many(@, n)]
    /\ last' = [NoOp EXCEPT !.op = "send", !.node = FlightLocal, !.held = n]
    /\ count' = [count EXCEPT !.rounds = @ + 1, !.sends = @ + n]
    /\ UNCHANGED <<crashed, rx_frame, tx_frame, pos, sent, heard, got, queue,
                   queue_prn, track>>

\* The station reads the ack of its oldest pending frame.
FlightAck ==
    /\ count.rounds < MaxFlightOps
    /\ nodes[FlightLocal].tx_queue.pending # <<>>
    /\ DoRecv(FlightLocal, ack_for(nodes[FlightLocal].tx_queue.pending[1]), 1)
    /\ count' = [count EXCEPT !.rounds = @ + 1, !.acks = @ + 1]
    /\ UNCHANGED <<rx_frame, tx_frame, pos, sent, queue, queue_prn, track>>

\* node.tick(tx, elapsed_ms) with every draw 0, on a queue of up to
\* MaxTicked entries.
FlightTick(elapsed_ms) ==
    /\ count.rounds < MaxFlightOps
    /\ pending_packets(nodes[FlightLocal].tx_queue) <= MaxTicked
    /\ \E r \in {node_tick(nodes[FlightLocal], elapsed_ms,
                           [k \in 1..MaxTicked |-> 0], 0)} :
           /\ nodes' = [nodes EXCEPT ![FlightLocal] = r.node]
           /\ last' = [NoOp EXCEPT !.op = "tick", !.node = FlightLocal,
                                   !.result = r.result, !.held = elapsed_ms,
                                   !.writes = Len(r.calls)]
    /\ count' = [count EXCEPT !.rounds = @ + 1]
    /\ UNCHANGED <<crashed, rx_frame, tx_frame, pos, sent, heard, got, queue,
                   queue_prn, track>>

NextFlight ==
    \/ \E n \in FlightBatches : FlightSend(n)
    \/ FlightAck
    \/ \E elapsed_ms \in {RETRY_DELAY_MS \div 2, RETRY_DELAY_MS} : FlightTick(elapsed_ms)

SpecFlight == Init /\ [][NextFlight]_vars

\* C26: the transmit queue never holds more than MAX_PACKET pending
\* entries.
C26_AtMostMaxPacketPending ==
    pending_packets(nodes[FlightLocal].tx_queue) <= MAX_PACKET

\* The bytes the queue holds are never more than BLOCK_SIZE.
FlightBytesBounded == Len(nodes[FlightLocal].tx_queue.data) <= BLOCK_SIZE

\* What the queue holds for its entry j: the header, the timing and the
\* payload bytes.
EntryView(q, j) ==
    [packet |-> q.pending[j].packet,
     next_send |-> q.pending[j].next_send,
     retry_count |-> q.pending[j].retry_count,
     data |-> get_packet_data(q, q.pending[j])]

\* The entries of a queue as it holds them, in order.
QueueView(q) == [j \in 1..Len(q.pending) |-> EntryView(q, j)]

\* The places of the entries with this packet ID.
Matches(q, prn) == {j \in 1..Len(q.pending) : q.pending[j].packet.prn = prn}

\* s without its element at place j.
Without(s, j) == [k \in 1..(Len(s) - 1) |-> IF k < j THEN s[k] ELSE s[k + 1]]

\* C27: ack_recv(prn) removes the first pending entry with that packet ID
\* and its payload bytes and returns true, every other entry keeping its
\* header, payload, next_send and retry_count; for a packet ID no pending
\* entry has it returns false and leaves the queue as it was.
C27_AckRemovesFirstMatch ==
    [][(count'.rounds = count.rounds + 1 /\ last'.op = "ack")
          => IF Matches(queue, last'.input) = {}
             THEN last'.result = "false" /\ queue' = queue
             ELSE LET first == CHOOSE j \in Matches(queue, last'.input) :
                                   \A k \in Matches(queue, last'.input) : j <= k
                  IN /\ last'.result = "true"
                     /\ QueueView(queue') = Without(QueueView(queue), first)
                     /\ Len(queue'.data)
                          = Len(queue.data) - queue.pending[first].data_size]_vars

\* The second of two pending frames with the same packet ID is still
\* pending after an ack for that ID, with the bytes it was enqueued with,
\* behind it a third frame.
C27_AckedFirstOfTwo ==
    /\ last.op = "ack"
    /\ last.result = "true"
    /\ Len(track) = 3
    /\ track[1].prn = track[2].prn
    /\ track[1].state = "acked"
    /\ track[2].state = "pending"
    /\ track[3].state = "pending"
    /\ Len(queue.pending) = 2
    /\ get_packet_data(queue, queue.pending[1]) = track[2].data

\* An ack has removed the middle one of three pending frames.
AckedMiddleOfThree ==
    /\ last.op = "ack"
    /\ last.result = "true"
    /\ Len(track) = 3
    /\ track[1].state = "pending"
    /\ track[2].state = "acked"
    /\ track[2].data # <<>>
    /\ track[3].state = "pending"
    /\ track[3].data # <<>>

\* An ack for a packet ID that nothing pending carries has returned false.
AckedUnknown ==
    /\ last.op = "ack"
    /\ last.result = "false"
    /\ queue.pending # <<>>

\* Do the payload ranges of the pending entries follow one another in
\* queue order from offset 0 to the end of the payload vector?
RangesCover(q) ==
    /\ \A j \in 1..Len(q.pending) :
           q.pending[j].data_offset
               = (IF j = 1 THEN 0
                  ELSE q.pending[j - 1].data_offset + q.pending[j - 1].data_size)
    /\ Len(q.data) = (IF q.pending = <<>> THEN 0
                      ELSE q.pending[Len(q.pending)].data_offset
                             + q.pending[Len(q.pending)].data_size)

\* The frames of track that are pending, in the order they were enqueued.
PendingFrames == SelectSeq(track, LAMBDA t : t.state = "pending")

\* Does the queue hold for each pending frame, in order, the header and
\* the bytes it was enqueued with?
HoldsEnqueuedBytes ==
    /\ Len(queue.pending) = Len(PendingFrames)
    /\ \A j \in 1..Len(queue.pending) :
           /\ queue.pending[j].packet = PendingFrames[j].header
           /\ get_packet_data(queue, queue.pending[j]) = PendingFrames[j].data

\* C28: the payload ranges of the pending entries are contiguous and
\* disjoint in queue order and cover the payload vector exactly, and the
\* bytes given to retry and discard for an entry are the bytes enqueued
\* with it.
C28_PayloadStorage ==
    /\ [](RangesCover(queue) /\ HoldsEnqueuedBytes)
    /\ [][(count'.rounds = count.rounds + 1 /\ last'.op = "tick")
             => \A k \in 1..Len(TickCalls) :
                    \E j \in 1..Len(PendingFrames) :
                        /\ TickCalls[k].packet = PendingFrames[j].header
                        /\ TickCalls[k].data = PendingFrames[j].data]_vars

\* A frame enqueued behind a frame of no bytes and a frame that was acked
\* has been retried.
C28_RetriedBehindRemoved ==
    /\ last.op = "tick"
    /\ Len(track) = 3
    /\ track[1].state = "pending"
    /\ track[1].data = <<>>
    /\ track[2].state = "acked"
    /\ track[2].data # <<>>
    /\ track[3].state = "pending"
    /\ track[3].data # <<>>
    /\ track[3].retries >= 1

\* A frame has expired while the frame enqueued behind it stays pending.
ExpiredBeforePending ==
    /\ Len(track) >= 2
    /\ track[1].state = "expired"
    /\ track[1].data # <<>>
    /\ track[2].state = "pending"
    /\ track[2].data # <<>>

\* C29: a frame that was acked or has expired is not in the queue, no
\* later tick calls retry or discard for it, no later ack_recv finds it,
\* and no frame leaves the queue more than once.
C29_AckedAndExpiredAreFinal ==
    /\ HoldsEnqueuedBytes
    /\ \A i \in 1..Len(track) :
           /\ track[i].late = 0
           /\ track[i].left = (IF track[i].state \in {"acked", "expired"} THEN 1 ELSE 0)
    /\ (last.op = "ack" /\ last.result = "true") => last.held # 0
    /\ (last.op = "ack" /\ last.result = "false") => last.held = 0

\* A frame was retried RETRY_COUNT times and discarded, and a later ack
\* for its packet ID has found nothing.
C29_AckAfterExpiry ==
    /\ last.op = "ack"
    /\ last.result = "false"
    /\ \E i \in 1..Len(track) :
           /\ track[i].state = "expired"
           /\ track[i].retries = RETRY_COUNT
           /\ track[i].prn = last.input

\* A frame was acked, and a later tick of the longest delay has retried
\* another frame.
TickAfterAck ==
    /\ last.op = "tick"
    /\ last.held = RETRY_DELAY_MS * (1 + RETRY_COUNT)
    /\ \E i \in 1..Len(track) : track[i].state = "acked" /\ track[i].retries >= 1
    /\ \E i \in 1..Len(track) : track[i].state = "pending" /\ track[i].retries >= 2

(***************************************************************************)
(* SpecDrain: a Queue that is filled and then only ticked and acked.       *)
(* Frames are enqueued before the first tick and none after it; every tick *)
(* is given a time of at least 1 ms, and its retry callback succeeds or    *)
(* returns an error.  tick is called again and again.  count.noise is 1    *)
(* once a retry callback has returned Ok.                                  *)
(***************************************************************************)
MaxDrain == 2

\* The times a tick is given: the first delay, and the longest a retry can
\* be delayed.
DrainTimes == {RETRY_DELAY_MS, RETRY_DELAY_MS * (1 + RETRY_COUNT)}

DrainDraws == {[k \in 1..(MaxDrain + 1) |-> r] : r \in {0, RndSteps}}

DEnqueue(size) ==
    /\ last.op \in {"none", "enqueue"}
    /\ Len(track) < MaxDrain
    /\ \E sample \in {create_packet_with(queue_prn, Fill(Len(track) + 1, size))} :
           /\ enqueue_fits(queue, sample.data)
           /\ queue_prn' = prn_next(queue_prn)
           /\ queue' = queue_enqueue(queue, sample.header, sample.data)
           /\ last' = [NoOp EXCEPT !.op = "enqueue"]
           /\ track' = Append(track, PendingTracked(sample.header, sample.data, TRUE))
    /\ UNCHANGED <<nodes, crashed, rx_frame, tx_frame, pos, sent, heard, got, count>>

DAck(i) ==
    /\ i \in 1..Len(track)
    /\ track[i].state = "pending"
    /\ \E r \in {queue_ack_recv(queue, track[i].prn)} :
           /\ queue' = r.queue
           /\ last' = [NoOp EXCEPT !.op = IF last.op = "tick" THEN "tick" ELSE "enqueue"]
           /\ track' = IF r.found
                       THEN [track EXCEPT ![i].state = "acked", ![i].left = @ + 1]
                       ELSE track
    /\ UNCHANGED <<nodes, crashed, rx_frame, tx_frame, pos, sent, heard, got, count,
                   queue_prn>>

DTick(elapsed_ms, rnd, fail_at) ==
    /\ track # <<>>
    /\ DueCount(queue, elapsed_ms) = 0 => (rnd[1] = 0 /\ fail_at = 0)
    /\ \E r \in {queue_tick(queue, elapsed_ms, rnd, fail_at)} :
           /\ fail_at # 0 => r.err
           /\ queue' = r.queue
           /\ track' = PendingTicked(r.calls)
           /\ last' = [NoOp EXCEPT !.op = "tick"]
           /\ count' = [count EXCEPT
                           !.noise = IF (\E k \in 1..Len(r.calls) : r.calls[k].call = "retry")
                                        /\ ~r.err
                                     THEN 1 ELSE @]
    /\ UNCHANGED <<nodes, crashed, rx_frame, tx_frame, pos, sent, heard, got,
                   queue_prn>>

\* Some call of tick with a time of at least 1 ms.
DrainTicks ==
    \E elapsed_ms \in DrainTimes : \E rnd \in DrainDraws : \E fail_at \in {0, 1} :
        DTick(elapsed_ms, rnd, fail_at)

NextDrain ==
    \/ DEnqueue(1)
    \/ \E i \in 1..MaxDrain : DAck(i)
    \/ DrainTicks

SpecDrain == Init /\ [][NextDrain]_vars /\ WF_vars(DrainTicks)

\* C30: once the ticks have begun, every pending entry is eventually
\* removed: the queue becomes empty, whether the retry callback succeeds
\* or fails.
C30_EveryFrameLeaves ==
    (last.op = "tick") ~> (queue.pending = <<>> /\ \A i \in 1..Len(track) : track[i].left = 1)

\* Every frame has expired after RETRY_COUNT retries though no retry
\* callback ever returned Ok.
C30_DrainedWithFailingRetries ==
    /\ Len(track) = MaxDrain
    /\ queue.pending = <<>>
    /\ count.noise = 0
    /\ \A i \in 1..Len(track) : track[i].state = "expired" /\ track[i].retries = RETRY_COUNT

\* Every frame has expired with every retry callback returning Ok.
DrainedWithRetries ==
    /\ Len(track) = MaxDrain
    /\ queue.pending = <<>>
    /\ count.noise = 1
    /\ \A i \in 1..Len(track) : track[i].state = "expired" /\ track[i].retries = RETRY_COUNT

\* C31: every turn of recv's inner loop in which decode returns a frame
\* removes exactly bytes_read bytes of recv_buffer, with bytes_read between
\* 1 and the bytes the buffer holds, whether or not the frame parsed or was
\* dispatched: the drain never runs past the buffer, and after the call
\* the buffer holds what it held and what was read less what was drained,
\* at least one byte of it drained when a frame was decoded.
C31_RecvDrainsWhatItDecodes ==
    last.op = "recv" =>
        /\ last.result # "Panic"
        /\ Len(nodes[last.node].recv_buffer) = last.held + last.read - last.drained
        /\ (last.events # <<>> \/ last.result # "Ok") => last.drained >= 1
        /\ ~(/\ kiss_decode(nodes[last.node].recv_buffer).some
             /\ last.result = "Ok")

\* C31 for the calls in which no drain runs past the buffer.
RecvDrainsWhenWhole ==
    (last.op = "recv" /\ last.result # "Panic") =>
        /\ Len(nodes[last.node].recv_buffer) = last.held + last.read - last.drained
        /\ (last.events # <<>> \/ last.result # "Ok") => last.drained >= 1
        /\ ~(/\ kiss_decode(nodes[last.node].recv_buffer).some
             /\ last.result = "Ok")

\* A frame that did not parse was drained and not decoded again.
CorruptFrameDrained ==
    /\ last.op = "recv"
    /\ last.result = "CRCFailure"
    /\ last.drained >= 1
    /\ nodes[last.node].recv_buffer = <<>>

\* Is station n the current hop of the frame of event e and not its last?
Relayed(e, n) ==
    /\ e.frame.address_route[1] \in {n, BROADCAST_ADDRESS}
    /\ e.frame.address_route[2] # ADDRESS_SEPARATOR

\* Are the bytes out one KISS frame, and that the frame of e with its
\* route advanced by n?
ForwardOf(out, e, n) ==
    /\ kiss_decode(out).some
    /\ kiss_decode(out).bytes_read = Len(out)
    /\ kiss_decode(out).port = 0
    /\ \E f \in {from_bytes(kiss_decode(out).decoded, kiss_decode(out).payload_size)} :
           /\ f.tag = "Ok"
           /\ f.frame.prn = e.frame.prn
           /\ f.payload = e.payload
           /\ f.frame.address_route = advance(e.frame.address_route, n)

\* C32: a station that receives a frame of which it is the current hop and
\* not the last writes exactly one frame, with the same PRN, the same
\* payload and the route advance(route, self); it does not call recv_cb,
\* and a recv call that dispatches only such frames leaves the transmit
\* queue and the ring as they were and writes those frames and nothing
\* else (no ack).
C32_RelayForwardsOnly ==
    [][last'.op = "recv" =>
           /\ \A i \in 1..Len(last'.events) :
                  Relayed(last'.events[i], last'.node) =>
                      /\ last'.events[i].result = "Ok"
                      /\ ~last'.events[i].recv
                      /\ ForwardOf(last'.events[i].out, last'.events[i], last'.node)
           /\ (\A i \in 1..Len(last'.events) : Relayed(last'.events[i], last'.node)) =>
                  /\ nodes'[last'.node].tx_queue = nodes[last'.node].tx_queue
                  /\ nodes'[last'.node].recv_prn_table = nodes[last'.node].recv_prn_table
                  /\ Len(last'.events) = 1 => last'.out = last'.events[1].out]_vars

\* A station forwarded a data frame addressed to it by name.
C32_RelayedByName ==
    /\ last.op = "recv"
    /\ Len(last.events) = 1
    /\ last.events[1].payload # <<>>
    /\ last.events[1].frame.address_route[1] = last.node
    /\ Relayed(last.events[1], last.node)
    /\ last.out # <<>>

\* A station forwarded a data frame addressed to every station.
RelayedBroadcast ==
    /\ last.op = "recv"
    /\ \E i \in 1..Len(last.events) :
           /\ last.events[i].frame.address_route[1] = BROADCAST_ADDRESS
           /\ Relayed(last.events[i], last.node)
           /\ last.events[i].out # <<>>

\* A station forwarded an ack on its way back.
RelayedAck ==
    /\ last.op = "recv"
    /\ \E i \in 1..Len(last.events) :
           /\ last.events[i].payload = <<>>
           /\ Relayed(last.events[i], last.node)
           /\ last.events[i].out # <<>>

\* Are the bytes out one KISS frame, and that a frame with no payload, the
\* PRN of the frame of e and its route reversed?
AckFor(out, e) ==
    /\ kiss_decode(out).some
    /\ kiss_decode(out).bytes_read = Len(out)
    /\ kiss_decode(out).port = 0
    /\ \E f \in {from_bytes(kiss_decode(out).decoded, kiss_decode(out).payload_size)} :
           /\ f.tag = "Ok"
           /\ f.frame.prn = e.frame.prn
           /\ f.payload = <<>>
           /\ f.frame.address_route = reverse(e.frame.address_route)

\* C33: a frame that ends at this station causes a write to the transport
\* if and only if its payload is not empty, and what is written then is
\* exactly one frame, with no payload, the PRN of the data frame and the
\* route reverse(incoming route); a frame with no payload (an ack) is not
\* answered.
C33_AckOnlyForData ==
    last.op = "recv" =>
        \A i \in 1..Len(last.events) :
            EndsAt(last.events[i].frame, last.node) =>
                /\ last.events[i].result = "Ok"
                /\ (last.events[i].out # <<>>) <=> (last.events[i].payload # <<>>)
                /\ last.events[i].payload # <<>> =>
                       AckFor(last.events[i].out, last.events[i])

\* A data frame that ended here after a relay was acknowledged along the
\* reversed route.
C33_RelayedDataAcked ==
    /\ last.op = "recv"
    /\ \E i \in 1..Len(last.events) :
           /\ EndsAt(last.events[i].frame, last.node)
           /\ last.events[i].payload # <<>>
           /\ last.events[i].frame.address_route[4] # ADDRESS_SEPARATOR
           /\ AckFor(last.events[i].out, last.events[i])

\* An ack ended at the station that sent the data frame and was not
\* answered.
AckUnanswered ==
    /\ last.op = "recv"
    /\ last.out = <<>>
    /\ \E i \in 1..Len(last.events) :
           /\ EndsAt(last.events[i].frame, last.node)
           /\ last.events[i].payload = <<>>
           /\ last.events[i].matched

\* The number of words of a route that are not the separator.
Hops(route) == Cardinality({i \in 1..Len(route) : route[i] # ADDRESS_SEPARATOR})

\* C34: a successful advance(r, self) with the first separator at index k
\* drops r[0], moves r[1..k] down by one, so that the separator is at index
\* k - 1, writes self at index k and leaves the words above k as they
\* were; the number of words that are not the separator stays the same;
\* and from fifteen forward words advance succeeds fifteen times in a row.
\* (Indices count from 0; the sequences of the model start at 1.)
C34_AdvanceShiftsAndWritesSelf ==
    /\ (last.op = "advance" /\ last.result = "Ok") =>
           \E k \in {sep_position(last.input)} :
               /\ \A j \in 0..(k - 1) : last.out[j + 1] = last.input[j + 2]
               /\ last.out[k] = ADDRESS_SEPARATOR
               /\ sep_position(last.out) = k - 1
               /\ last.out[k + 1] = last.node
               /\ \A j \in (k + 1)..(MAX_LENGTH - 1) : last.out[j + 1] = last.input[j + 1]
               /\ Hops(last.out) = Hops(last.input)
    /\ (last.op = "run" /\ sep_position(last.input) \in 1..(MAX_LENGTH - 2)) =>
           /\ last.read = sep_position(last.input)
           /\ Hops(last.out) = Hops(last.input)
           /\ sep_position(last.out) = 0

\* advance has succeeded fifteen times in a row on the route of
\* test_routing.
C34_FifteenAdvances ==
    /\ last.op = "run"
    /\ sep_position(last.input) = MAX_LENGTH - 2
    /\ last.read = MAX_LENGTH - 2
    /\ \A j \in 2..(MAX_LENGTH - 1) : last.out[j] = last.node

\* advance has succeeded on a route with two forward words and two return
\* words.
AdvancedMiddle ==
    /\ last.op = "advance"
    /\ last.result = "Ok"
    /\ sep_position(last.input) = 2
    /\ Len(ReturnPath(last.input)) = 2

\* Does a route have no separator, or its first separator at index 0 or at
\* index 16?
NoRoomToAdvance(route) ==
    \/ \A i \in 1..MAX_LENGTH : route[i] # ADDRESS_SEPARATOR
    \/ route[1] = ADDRESS_SEPARATOR
    \/ /\ route[MAX_LENGTH] = ADDRESS_SEPARATOR
       /\ \A i \in 1..(MAX_LENGTH - 1) : route[i] # ADDRESS_SEPARATOR

\* C35: advance(route, self) fails with BadFormat exactly when the route
\* has no separator or its first separator is at index 0 or at index 16;
\* and a station that is the current hop, and not the last, of a frame with
\* such a route returns a routing error, writes nothing and leaves its
\* transmit queue and its ring as they were.
C35_AdvanceFailsWithoutRoom ==
    [][/\ last'.op = "advance" =>
              (last'.result = "BadFormat" <=> NoRoomToAdvance(last'.input))
       /\ last'.op = "dispatch" =>
              /\ last'.result = "Routing" <=>
                     /\ last'.input[1] \in {last'.node, BROADCAST_ADDRESS}
                     /\ last'.input[2] # ADDRESS_SEPARATOR
                     /\ NoRoomToAdvance(last'.input)
              /\ last'.result = "Routing" =>
                     /\ last'.out = <<>>
                     /\ ~last'.events[1].recv
                     /\ nodes'[last'.node].tx_queue = nodes[last'.node].tx_queue
                     /\ nodes'[last'.node].recv_prn_table
                            = nodes[last'.node].recv_prn_table]_vars

\* A station was the current hop of a frame whose separator is the last
\* word of the route and returned the routing error.
C35_RefusedWithSeparatorLast ==
    /\ last.op = "dispatch"
    /\ last.result = "Routing"
    /\ last.input[1] = last.node
    /\ last.input[MAX_LENGTH] = ADDRESS_SEPARATOR

\* advance failed on a route that starts with the separator.
RefusedWithSeparatorFirst ==
    /\ last.op = "advance"
    /\ last.result = "BadFormat"
    /\ last.input[1] = ADDRESS_SEPARATOR

\* advance failed on a route with no separator.
RefusedWithoutSeparator ==
    /\ last.op = "advance"
    /\ last.result = "BadFormat"
    /\ \A i \in 1..MAX_LENGTH : last.input[i] # ADDRESS_SEPARATOR

\* A station forwarded a frame it dispatched.
DispatchForwarded ==
    /\ last.op = "dispatch"
    /\ last.result = "Ok"
    /\ last.out # <<>>
    /\ last.input[1] = last.node

\* recv returned the routing error of a frame it could not forward, wrote
\* nothing and drained the frame.
RecvRefusedRoute ==
    /\ last.op = "recv"
    /\ last.result = "Routing"
    /\ last.out = <<>>
    /\ last.drained > 0
    /\ nodes[last.node].recv_buffer = <<>>
    /\ pending_packets(nodes[last.node].tx_queue) = 0

(***************************************************************************)
(* SpecBackoff: a Queue whose frames are never acknowledged.  Frames are   *)
(* enqueued and the queue is ticked, with a retry callback that succeeds   *)
(* or fails; track holds, per frame, the clock of the entry: the time of   *)
(* the ticks that examined it (age), the part of it since the entry was    *)
(* last scheduled (since), the delay it was scheduled with (sched), the    *)
(* time of the ticks at which it was due (due), and whether it was retried *)
(* or discarded before since reached sched (early).                        *)
(***************************************************************************)
MaxBackoff == 2
MaxBackoffOps == 7

\* The times a tick is given: half the first delay, the first delay, and
\* the longest a retry can be delayed.
BackoffTimes == {RETRY_DELAY_MS \div 2, RETRY_DELAY_MS, RETRY_DELAY_MS * (1 + RETRY_COUNT)}

BackoffDraws == {[k \in 1..(MaxBackoff + 1) |-> r] : r \in {0, RndSteps}}

\* The place of the entry with this packet ID in a queue, or 0.
PlaceOf(q, prn) ==
    IF \E j \in 1..Len(q.pending) : q.pending[j].packet.prn = prn
    THEN CHOOSE j \in 1..Len(q.pending) : q.pending[j].packet.prn = prn
    ELSE 0

\* Did the tick of queue q that returned r examine the entry with this
\* packet ID?  A tick that returns Err stops at the entry whose retry
\* failed.
Examined(q, r, prn) ==
    /\ PlaceOf(q, prn) # 0
    /\ r.err => PlaceOf(q, prn) <= PlaceOf(q, r.calls[Len(r.calls)].packet.prn)

\* The delay the calls scheduled for this packet ID.
Scheduled(calls, prn) ==
    calls[CHOOSE k \in 1..Len(calls) :
              calls[k].call = "retry" /\ calls[k].packet.prn = prn].next_retry

\* track after the tick of queue that returned r.
BackoffTicked(r, elapsed_ms) ==
    [i \in 1..Len(track) |->
        IF track[i].state # "pending" \/ ~Examined(queue, r, track[i].prn)
        THEN track[i]
        ELSE
        LET retried == \E k \in 1..Len(r.calls) :
                           r.calls[k].call = "retry" /\ r.calls[k].packet.prn = track[i].prn
            discarded == \E k \in 1..Len(r.calls) :
                             r.calls[k].call = "discard" /\ r.calls[k].packet.prn = track[i].prn
        IN [track[i] EXCEPT
               !.age = @ + elapsed_ms,
               !.state = IF discarded THEN "expired" ELSE @,
               !.retries = IF retried THEN @ + 1 ELSE @,
               !.due = IF retried \/ discarded THEN @ + elapsed_ms ELSE @,
               !.early = @ \/ ((retried \/ discarded)
                                /\ track[i].since + elapsed_ms < track[i].sched),
               !.sched = IF retried THEN Scheduled(r.calls, track[i].prn) ELSE @,
               !.since = IF retried \/ discarded THEN 0 ELSE @ + elapsed_ms]]

\* queue.enqueue(header, data) of a frame of one byte
BEnqueue ==
    /\ Len(track) < MaxBackoff
    /\ count.rounds < MaxBackoffOps
    /\ \E sample \in {create_packet_with(queue_prn, <<Len(track) + 1>>)} :
           /\ enqueue_fits(queue, sample.data)
           /\ queue_prn' = prn_next(queue_prn)
           /\ queue' = queue_enqueue(queue, sample.header, sample.data)
           /\ last' = [NoOp EXCEPT !.op = "enqueue", !.input = sample.data]
           /\ track' = Append(track, [prn |-> sample.header.prn, state |-> "pending",
                                      retries |-> 0, age |-> 0, since |-> 0,
                                      sched |-> RETRY_DELAY_MS, due |-> 0,
                                      early |-> FALSE])
    /\ count' = [count EXCEPT !.rounds = @ + 1]
    /\ UNCHANGED <<nodes, crashed, rx_frame, tx_frame, pos, sent, heard, got>>

\* queue.tick(elapsed_ms, retry, discard); the retry callback fails on its
\* call number fail_at.  last records elapsed_ms, fail_at and the result.
BTick(elapsed_ms, rnd, fail_at) ==
    /\ queue.pending # <<>>
    /\ count.rounds < MaxBackoffOps
    /\ DueCount(queue, elapsed_ms) = 0 => (rnd[1] = 0 /\ fail_at = 0)
    /\ \E r \in {queue_tick(queue, elapsed_ms, rnd, fail_at)} :
           /\ fail_at # 0 => r.err
           /\ queue' = r.queue
           /\ track' = BackoffTicked(r, elapsed_ms)
           /\ last' = [NoOp EXCEPT !.op = "tick", !.held = elapsed_ms,
                                   !.writes = fail_at,
                                   !.result = IF r.err THEN "Io" ELSE "Ok"]
    /\ count' = [count EXCEPT !.rounds = @ + 1]
    /\ UNCHANGED <<nodes, crashed, rx_frame, tx_frame, pos, sent, heard, got,
                   queue_prn>>

NextBackoff ==
    \/ BEnqueue
    \/ \E elapsed_ms \in BackoffTimes : \E rnd \in BackoffDraws :
           \E fail_at \in {0, 1} : BTick(elapsed_ms, rnd, fail_at)

SpecBackoff == Init /\ [][NextBackoff]_vars

\* RETRY_DELAY_MS * sum over k = 0..n of (1 + k)
RECURSIVE calc_retry(_)
calc_retry(n) ==
    IF n = 0 THEN RETRY_DELAY_MS ELSE ((1 + n) * RETRY_DELAY_MS) + calc_retry(n - 1)

\* After its k-th retry an entry is scheduled with a delay between
\* RETRY_DELAY_MS and (1 + k) * RETRY_DELAY_MS, and no entry is retried or
\* discarded before the time accumulated since it was scheduled reaches
\* that delay.
BackoffInRange ==
    \A i \in 1..Len(track) :
        /\ track[i].retries <= RETRY_COUNT
        /\ track[i].sched >= RETRY_DELAY_MS
        /\ track[i].sched <= (1 + track[i].retries) * RETRY_DELAY_MS
        /\ ~track[i].early
        /\ track[i].state = "pending" =>
               \E j \in 1..Len(queue.pending) :
                   /\ queue.pending[j].packet.prn = track[i].prn
                   /\ queue.pending[j].retry_count = track[i].retries
                   /\ queue.pending[j].next_send = track[i].sched - track[i].since

LongestTick == CHOOSE t \in BackoffTimes : \A u \in BackoffTimes : u <= t

AgedTogether ==
    \A j \in 1..Len(queue.pending) :
        queue.pending[j].next_send > last'.held =>
            \E k \in 1..Len(queue'.pending) :
                /\ queue'.pending[k].packet = queue.pending[j].packet
                /\ queue'.pending[k].retry_count = queue.pending[j].retry_count
                /\ queue'.pending[k].next_send = queue.pending[j].next_send - last'.held

\* C37: every call of tick(elapsed_ms), one that returns the error of the
\* retry callback included, reduces next_send of every pending entry that
\* is not yet due by exactly elapsed_ms.
C37_EveryTickAgesAllEntries ==
    [][last'.op = "tick" => AgedTogether]_vars

\* C37 for the calls of tick that return Ok.
OkTickAgesAllEntries ==
    [][(last'.op = "tick" /\ last'.result = "Ok") => AgedTogether]_vars

(***************************************************************************)
(* SpecBadData: the station of test_recv_bad_data.  Its recv is given the  *)
(* KISS frame of bytes that are no NBP frame; it sends five bytes to       *)
(* itself, and its recv is given what that send wrote.                     *)
(***************************************************************************)
MaxBadData == 3
MaxSelfSends == 2

BadStation == StationOrder[1]

\* (0..i).map(|x| x as u8)
bad_data(i) == [k \in 1..i |-> (k - 1) % 256]

\* The lengths of the bad data: of the 0..MTU+1 of the test, none, less
\* than a PRN, less than a route, the longest whose KISS frame one read
\* holds, the shortest whose KISS frame it does not, and the longest.
BadSizes == {0, 3, 10, SCRACH_SIZE - 6, SCRACH_SIZE - 4, MTU + 1}

\* The payload the station sends to itself.
SelfPayload == <<0, 1, 2, 3, 4>>

\* node.recv on a transport that holds kiss::encode(bad_data, 0)
BadRecv(i) ==
    /\ count.noise < MaxBadData
    /\ DoRecv(BadStation, kiss_encode(bad_data(i), 0), 1)
    /\ count' = [count EXCEPT !.noise = @ + 1]
    /\ UNCHANGED <<rx_frame, tx_frame, pos, sent, queue, queue_prn, track>>

\* node.send((0..5), once(callsign), packet)
SelfSend ==
    /\ count.sends < MaxSelfSends
    /\ rx_frame = <<>>
    /\ DoSend(BadStation, <<BadStation>>, SelfPayload, TRUE)
    /\ rx_frame' = last'.out
    /\ count' = [count EXCEPT !.sends = @ + 1]
    /\ UNCHANGED <<crashed, tx_frame, pos, heard, got, queue, queue_prn, track>>

\* node.recv on a transport that holds packet
SelfRecv ==
    /\ rx_frame # <<>>
    /\ DoRecv(BadStation, rx_frame, 1)
    /\ rx_frame' = <<>>
    /\ tx_frame' = last'.out
    /\ UNCHANGED <<pos, sent, count, queue, queue_prn, track>>

NextBadData ==
    \/ \E i \in BadSizes : BadRecv(i)
    \/ SelfSend
    \/ SelfRecv

SpecBadData == Init /\ [][NextBadData]_vars

\* Is the input of the recv call just made the KISS frame of bad data?
BadInput == \E i \in BadSizes : last'.input = kiss_encode(bad_data(i), 0)

\* C38: recv of a KISS frame that does not parse returns an error, leaves
\* no byte of the frame in recv_buffer and changes neither the transmit
\* queue nor the ring; and recv of a well-formed frame addressed to the
\* station, given to a later call, passes its payload to recv_cb intact.
C38_RecoversFromBadData ==
    [][/\ (last'.op = "recv" /\ BadInput) =>
              /\ last'.result \notin {"Ok", "Panic"}
              /\ last'.events = <<>>
              /\ nodes'[BadStation].recv_buffer = <<>>
              /\ nodes'[BadStation].tx_queue = nodes[BadStation].tx_queue
              /\ nodes'[BadStation].recv_prn_table = nodes[BadStation].recv_prn_table
       /\ (last'.op = "recv" /\ ~BadInput) =>
              /\ last'.result = "Ok"
              /\ Len(last'.events) = 1
              /\ last'.events[1].recv
              /\ last'.events[1].payload = SelfPayload]_vars

\* C38 for the bad data whose KISS frame one read of the transport holds.
RecoversFromShortBadData ==
    [][/\ (last'.op = "recv" /\ BadInput /\ Len(last'.input) <= SCRACH_SIZE) =>
              /\ last'.result \notin {"Ok", "Panic"}
              /\ last'.events = <<>>
              /\ nodes'[BadStation].recv_buffer = <<>>
              /\ nodes'[BadStation].tx_queue = nodes[BadStation].tx_queue
              /\ nodes'[BadStation].recv_prn_table = nodes[BadStation].recv_prn_table
       /\ (last'.op = "recv" /\ ~BadInput) =>
              /\ last'.result = "Ok"
              /\ Len(last'.events) = 1
              /\ last'.events[1].recv
              /\ last'.events[1].payload = SelfPayload]_vars

\* The station got its own frame after two recv calls had returned errors.
DeliveredAfterBadData ==
    /\ last.op = "recv"
    /\ last.result = "Ok"
    /\ count.noise = MaxBadData
    /\ crashed = {}
    /\ BagCardinality(got[BadStation]) >= 1

(***************************************************************************)
(* SpecSendFail: one station whose client sends on a transport that may    *)
(* refuse the write, with payloads and routes that send rejects among      *)
(* them, on a queue that is empty or (filled at the start) full, and whose *)
(* host ticks with no ack ever arriving.  track holds, per frame that      *)
(* reached the queue, whether its write succeeded, the tick count at which *)
(* it was enqueued (born), how often retry was called for it and whether   *)
(* discard was.                                                            *)
(***************************************************************************)
MaxFailSends == 2
MaxFailTicks == 6

FailLocal == SendLocal
FailRemote == SendRemote

\* A payload of one byte, and the first that is too large.
FailSizes == {1, MTU + 1}

\* One hop, and a route that leaves no room for the separator and the
\* origin.
FailRoutes == {<<FailRemote>>, Fill(FailRemote, MAX_LENGTH - 1)}

\* How many of the calls are of one kind and for one packet ID.
CallsOf(calls, kind, prn) ==
    Cardinality({k \in 1..Len(calls) :
                    calls[k].call = kind /\ calls[k].packet.prn = prn})

\* The fill loop of test_discard, before anything else.
FailFill ==
    /\ last.op = "none"
    /\ nodes' = [nodes EXCEPT ![FailLocal] = burst_loop(@, 0)]
    /\ last' = [NoOp EXCEPT !.op = "burst", !.node = FailLocal]
    /\ UNCHANGED <<crashed, rx_frame, tx_frame, pos, sent, heard, got, count, queue,
                   queue_prn, track>>

\* node.send(payload, route, tx_drain); wok: tx_drain accepts the write.
FailSend(size, route, wok) ==
    /\ count.sends < MaxFailSends
    /\ DoSend(FailLocal, route, Fill(7, size), wok)
    /\ track' = IF Len(nodes'[FailLocal].tx_queue.pending)
                      > Len(nodes[FailLocal].tx_queue.pending)
                THEN Append(track,
                            [prn |-> prn_current(nodes'[FailLocal].prn),
                             wrote |-> wok, born |-> count.rounds,
                             retries |-> 0, state |-> "pending"])
                ELSE track
    /\ count' = [count EXCEPT !.sends = @ + 1]
    /\ UNCHANGED <<crashed, rx_frame, tx_frame, pos, heard, got, queue, queue_prn>>

\* node.tick(tx_drain, RETRY_DELAY_MS * (1 + RETRY_COUNT), ...) on a
\* transport that accepts every write, every draw 0
FailTick ==
    /\ count.rounds < MaxFailTicks
    /\ track # <<>>
    /\ \E r \in {node_tick(nodes[FailLocal], RETRY_DELAY_MS * (1 + RETRY_COUNT),
                           [k \in 1..MaxFailSends |-> 0], 0)} :
           /\ nodes' = [nodes EXCEPT ![FailLocal] = r.node]
           /\ last' = [NoOp EXCEPT !.op = "tick", !.node = FailLocal,
                                   !.result = r.result, !.out = r.out]
           /\ track' = [i \in 1..Len(track) |->
                           [track[i] EXCEPT
                               !.retries = @ + CallsOf(r.calls, "retry", track[i].prn),
                               !.state = IF CallsOf(r.calls, "discard", track[i].prn) > 0
                                         THEN "expired" ELSE @]]
    /\ count' = [count EXCEPT !.rounds = @ + 1]
    /\ UNCHANGED <<crashed, rx_frame, tx_frame, pos, sent, heard, got, queue,
                   queue_prn>>

NextSendFail ==
    \/ FailFill
    \/ \E size \in FailSizes : \E route \in FailRoutes : \E wok \in BOOLEAN :
           FailSend(size, route, wok)
    \/ FailTick

SpecSendFail == Init /\ [][NextSendFail]_vars

\* Every frame that reached the queue, its write failed or not, is retried
\* by each of the RETRY_COUNT ticks after it was enqueued and discarded by
\* the next.
RetriedAlike ==
    \A i \in 1..Len(track) :
        /\ track[i].state = "pending" =>
               /\ track[i].retries = count.rounds - track[i].born
               /\ track[i].retries <= RETRY_COUNT
               /\ \E j \in 1..Len(nodes[FailLocal].tx_queue.pending) :
                      /\ nodes[FailLocal].tx_queue.pending[j].packet.prn = track[i].prn
                      /\ nodes[FailLocal].tx_queue.pending[j].retry_count
                             = track[i].retries
        /\ track[i].state = "expired" =>
               /\ track[i].retries = RETRY_COUNT
               /\ count.rounds - track[i].born > RETRY_COUNT
               /\ \A j \in 1..Len(nodes[FailLocal].tx_queue.pending) :
                      nodes[FailLocal].tx_queue.pending[j].packet.prn # track[i].prn

RefusedByFullQueue ==
    /\ last.op = "send"
    /\ last.result = "Discarded"
    /\ Len(nodes[FailLocal].tx_queue.data) = BLOCK_SIZE

\* A send was refused for its payload, and one for its route.
RefusedForSize == last.op = "send" /\ last.result = "Truncated"

RefusedForRoute == last.op = "send" /\ last.result = "AddressTooLong"

(***************************************************************************)
(* Frames whose payload is longer than MTU.  Node::send refuses to build   *)
(* one, so they come from another implementation on the link: the layout   *)
(* of to_bytes with a longer payload, KISS-encoded.  recv is given them    *)
(* through the transport, and from_bytes is given what kiss::decode makes  *)
(* of them, as recv's inner loop calls it.                                 *)
(***************************************************************************)
MaxOversize == 2

OverStations == {StationOrder[1], StationOrder[2]}

\* The payload lengths: one that is delivered, the longest allowed, and
\* two that are too long, by one byte and by a whole read.
WireSizes == {5, MTU, MTU + 1, MTU + SCRACH_SIZE}

\* The bytes of a frame for the station dest carrying size payload bytes.
wire_frame(dest, size) ==
    to_bytes([prn |-> prn_current(prn_new(TEST020)),
              address_route |-> <<dest, ADDRESS_SEPARATOR, TEST020>>
                                    \o Fill(ADDRESS_SEPARATOR, MAX_LENGTH - 3)],
             Fill(7, size))

\* The NBP payload length of a frame of n bytes on this route: n less the
\* PRN, the three route words, the closing separator and the CRC.
wire_payload_size(n) == n - (4 + 4 * 4 + 2)

\* The KISS frames the transport holds, and what kiss::decode makes of them.
OverWire ==
    [n \in OverStations |->
        [size \in WireSizes |-> kiss_encode(wire_frame(n, size), 0)]]

OverDecoded ==
    [n \in OverStations |-> [size \in WireSizes |-> kiss_decode(OverWire[n][size])]]

\* frame::from_bytes on the decoded KISS frame, as recv's inner loop calls it.
OverParse(n, size) ==
    /\ n \notin crashed
    /\ OverDecoded[n][size].some
    /\ last' = [NoOp EXCEPT
                   !.op = "parse", !.node = n,
                   !.input = OverWire[n][size],
                   !.read = OverDecoded[n][size].payload_size,
                   !.result = from_bytes(OverDecoded[n][size].decoded,
                                         OverDecoded[n][size].payload_size).tag]
    /\ UNCHANGED <<nodes, crashed, rx_frame, tx_frame, pos, sent, heard, got,
                   count, queue, queue_prn, track>>

\* node.recv on a transport that holds the KISS frame.
OverRecv(n, size) ==
    /\ count.noise < MaxOversize
    /\ DoRecv(n, OverWire[n][size], 1)
    /\ count' = [count EXCEPT !.noise = @ + 1]
    /\ UNCHANGED <<rx_frame, tx_frame, pos, sent, queue, queue_prn, track>>

NextOversize ==
    \/ \E n \in OverStations, size \in WireSizes : OverParse(n, size)
    \/ \E n \in OverStations, size \in WireSizes : OverRecv(n, size)
    \/ SelfSend
    \/ SelfRecv

SpecOversize == Init /\ [][NextOversize]_vars

\* Was the last operation given a frame whose payload is longer than MTU?
OversizeInput ==
    /\ last.op \in {"parse", "recv"}
    /\ last.node \in OverStations
    /\ \E size \in WireSizes :
          /\ size > MTU
          /\ last.input = OverWire[last.node][size]

\* C40: a frame whose payload is longer than MTU is refused without a
\* crash: from_bytes returns Truncated, and recv returns that error, calls
\* no callback, writes nothing, leaves none of the frame's bytes in
\* recv_buffer and leaves the station able to receive again.
C40_OversizeRejected ==
    OversizeInput =>
        /\ last.result = "Truncated"
        /\ last.events = <<>>
        /\ last.out = <<>>
        /\ last.node \notin crashed
        /\ nodes[last.node].recv_buffer = <<>>

\* What does hold of such a frame: it is never passed on as a frame.
OversizeNeverDelivered ==
    OversizeInput =>
        /\ last.result \notin {"Ok"}
        /\ last.events = <<>>
        /\ last.out = <<>>

\* from_bytes was given a payload one byte longer than MTU.
OversizeParsed ==
    /\ last.op = "parse"
    /\ wire_payload_size(last.read) = MTU + 1

\* recv was given a frame with a payload one byte longer than MTU.
OversizeReceived ==
    /\ last.op = "recv"
    /\ last.node \in OverStations
    /\ last.input = OverWire[last.node][MTU + 1]

\* A frame of five payload bytes from the same sender is delivered.
ShortFrameDelivered ==
    /\ last.op = "recv"
    /\ last.node \in OverStations
    /\ last.input = OverWire[last.node][5]
    /\ last.result = "Ok"
    /\ Len(last.events) = 1
    /\ last.events[1].recv

====
